---- MODULE Spec2Model ----
(***************************************************************************)
(* Borg backup add-on: the backup and restore workflows of                 *)
(* src/borg-backup (common.py, backup.py, restore.py) as a state machine.  *)
(*                                                                         *)
(* One behaviour is one process: BorgCommon.__init__ (configuration and    *)
(* environment), the subclass constructor, then create_backup or           *)
(* restore_backup.  Every external collaborator (borg, tar, the Supervisor *)
(* API) answers nondeterministically; its answer is an input of the action *)
(* that calls it.  Texts (error messages, stderr, URLs) are modelled by    *)
(* the set of lower-case words they contain, which is all the code ever    *)
(* asks of them (substring tests for keywords).                            *)
(***************************************************************************)
EXTENDS Integers, Sequences, FiniteSets, TLC

\* ------------------------------------------------------------------ bounds
MaxKeep == 2
MaxSnapshots == 3
MaxNested == 1
MaxArchives == 2
MaxListing == 5     \* archives of a listing the selection alone is applied to
MaxCores == 3       \* what multiprocessing.cpu_count() reports, at most

\* ------------------------------------------------------- program constants
MinKeep == 1
ConfigErrorExit == 1    \* _load_config: sys.exit(1)
RunErrorExit == 1       \* create_backup / restore_backup: sys.exit(1)
MiB == 1048576          \* _detect_system_capabilities: 1024 * 1024
ParallelMemoryMb == 1024
NoTimeout == 0          \* a request made without the timeout argument

\* Python's None.
None == "<None>"

\* Python truthiness of an Optional[str].
Truthy(v) == v # None /\ v # ""

Max(a, b) == IF a > b THEN a ELSE b
Min(a, b) == IF a < b THEN a ELSE b

\* ---------------------------------------------------------------- texts
\* The lower-case words of the repository URLs the model draws from.
Words(s) ==
  CASE s = "backup@nas:ha" -> {"backup", "nas", "ha"}
    [] s = "backup@integrity.example:ha" -> {"backup", "integrity", "example", "ha"}
    [] s = "nas:ha" -> {"nas", "ha"}
    [] OTHER -> {}

\* str(e) of subprocess.CalledProcessError: "Command '<argv>' returned
\* non-zero exit status <n>."  The argv of every borg command ends with the
\* repository URL; the child's stderr is not part of the text.
CalledProcessErrorText(argv, url) ==
  {"command", "returned", "non-zero", "exit", "status"} \cup argv \cup Words(url)

\* The two ValueError texts of _check_repo_exists.
AuthErrorText(passphrase) ==
  IF ~Truthy(passphrase)
  THEN {"repository", "exists", "but", "requires", "a", "passphrase"}
  ELSE {"repository", "exists", "but", "passphrase", "authentication", "failed"}

\* ------------------------------------------------------------ configuration
ValidCompressions == {"none", "lz4", "zstd", "zlib", "lzma"}

\* The raw options of /data/options.json the run specification draws from.
\* The code asks of the passphrase only whether it is empty; the absent
\* passphrase is among ConfigOptions.
RunOptions ==
  [ passphrase : {"", "s3cret"},
    repo_url : {None, "backup@nas:ha", "backup@integrity.example:ha"},
    user : {None},
    host : {None},
    reponame : {None},
    compression : {"zstd"},
    keep_snapshots : 0..MaxKeep ]

\* The raw options the construction specification draws from: every option
\* _validate_config looks at, absent (or null), empty, and set; a
\* compression that is not among the valid ones; retention counts from below
\* the minimum on.
ConfigOptions ==
  [ passphrase : {None, "", "s3cret"},
    repo_url : {None, "", "backup@nas:ha"},
    user : {None, "", "backup"},
    host : {None, "", "nas"},
    reponame : {None, "", "ha"},
    compression : {None, "", "zstd", "lz4", "gzip"},
    keep_snapshots : -1..MaxKeep ]

\* A faulty variant of ValidationError: an explicit URL next to a host is
\* let through.
ValidationErrorMutAllowsBoth(c) ==
  IF ~Truthy(c.repo_url) /\ ~Truthy(c.host) THEN "neither"
  ELSE IF Truthy(c.host) /\ ~Truthy(c.reponame) THEN "no_reponame"
  ELSE None

\* _validate_config: the error it raises (None when it returns).
ValidationError(c) ==
  IF ~Truthy(c.repo_url) /\ ~Truthy(c.host) THEN "neither"
  ELSE IF Truthy(c.repo_url) /\ Truthy(c.host) THEN "both"
  ELSE IF Truthy(c.host) /\ ~Truthy(c.reponame) THEN "no_reponame"
  ELSE None

\* f"{user_prefix}{config.host}:{config.reponame}".
SynthUrl(user, host, reponame) ==
  (IF Truthy(user) THEN user \o "@" ELSE "") \o host \o ":" \o reponame

\* _validate_config on a configuration that passes: the normalised object.
Normalize(c) ==
  [ c EXCEPT
      !.compression = IF Truthy(c.compression) /\ c.compression \notin ValidCompressions
                      THEN "zstd" ELSE c.compression,
      !.keep_snapshots = IF c.keep_snapshots < MinKeep THEN MinKeep ELSE c.keep_snapshots,
      !.repo_url = IF Truthy(c.host) /\ ~Truthy(c.repo_url)
                   THEN SynthUrl(c.user, c.host, c.reponame) ELSE c.repo_url ]

\* ----------------------------------------------------------- capabilities
\* What psutil.virtual_memory().available can report, in bytes: values on
\* both sides of the 1024 MB threshold and of a whole number of MB.
AvailableBytes ==
  { 1023 * MiB, 1024 * MiB, 1025 * MiB - 1, 1025 * MiB, 2000 * MiB }

\* What reading <sys_path>/queue/rotational can give: the text of the file,
\* or an exception (the file is missing or unreadable).
RotationalAnswers == {"1", "0", "raises"}

\* What the platform answers _detect_system_capabilities.
Machines ==
  [ cpu_count : 1..MaxCores, available : AvailableBytes, rotational : RotationalAnswers ]

\* The machine of the run specification.
RunMachines ==
  { [ cpu_count |-> 2, available |-> 1025 * MiB, rotational |-> "raises" ] }

\* "mmcblk" in str(Path("/").resolve()): the root directory resolves to "/".
RootIsMmc == FALSE

\* A faulty variant of IsRotationalDisk: a file that cannot be read counts
\* as not rotational.
IsRotationalDiskMutOptimistic(answer) == answer = "1"

\* _is_rotational_disk: the file reads "1"; every exception gives True.
IsRotationalDisk(answer) ==
  IF answer = "raises" THEN TRUE ELSE answer = "1"

\* A faulty variant of DetectSystemCapabilities: 1024 MB are enough.
DetectSystemCapabilitiesMutAtLeast(m) ==
  LET cpu_cores == m.cpu_count
      available_memory == m.available \div MiB
      is_slow_storage == RootIsMmc \/ IsRotationalDisk(m.rotational)
      use_parallel ==
        cpu_cores > 1 /\ available_memory >= ParallelMemoryMb /\ ~is_slow_storage
  IN [ cpu_cores |-> cpu_cores,
       available_memory_mb |-> available_memory,
       is_slow_storage |-> is_slow_storage,
       use_parallel |-> use_parallel,
       compression_threads |-> IF use_parallel THEN cpu_cores - 1 ELSE 1 ]

\* _detect_system_capabilities: the SystemCapabilities object.
DetectSystemCapabilities(m) ==
  LET cpu_cores == m.cpu_count
      available_memory == m.available \div MiB
      is_slow_storage == RootIsMmc \/ IsRotationalDisk(m.rotational)
      use_parallel ==
        cpu_cores > 1 /\ available_memory > ParallelMemoryMb /\ ~is_slow_storage
  IN [ cpu_cores |-> cpu_cores,
       available_memory_mb |-> available_memory,
       is_slow_storage |-> is_slow_storage,
       use_parallel |-> use_parallel,
       compression_threads |-> IF use_parallel THEN cpu_cores - 1 ELSE 1 ]

\* self.capabilities before _detect_system_capabilities has run.
NoCaps ==
  [ cpu_cores |-> 0, available_memory_mb |-> 0, is_slow_storage |-> FALSE,
    use_parallel |-> FALSE, compression_threads |-> 0 ]

\* ------------------------------------------------------------ environment
\* BorgConfig's directories and the ssh command _setup_environment builds
\* from ssh_known_hosts and ssh_key (ssh_params is empty).
BaseDir == "/homeassistant/borg"
CacheDir == "/homeassistant/borg/cache"
SshCommand ==
  "ssh -o UserKnownHostsFile=/homeassistant/borg/known_hosts"
    \o " -i /homeassistant/borg/keys/borg_backup"

\* The variables of os.environ that configure borg; None is a variable that
\* is not set.  The process can inherit the two encryption variables.
InheritedEnvirons ==
  [ BORG_BASE_DIR : {None},
    BORG_CACHE_DIR : {None},
    BORG_PASSPHRASE : {None, "inherited"},
    BORG_UNKNOWN_UNENCRYPTED_REPO_ACCESS_IS_OK : {None, "yes"},
    BORG_RSH : {None} ]

CleanEnviron ==
  [ BORG_BASE_DIR |-> None, BORG_CACHE_DIR |-> None, BORG_PASSPHRASE |-> None,
    BORG_UNKNOWN_UNENCRYPTED_REPO_ACCESS_IS_OK |-> None, BORG_RSH |-> None ]

\* A faulty variant of SetupEnvironment: the variable of the other
\* encryption setting is not popped.
SetupEnvironmentMutKeepsOther(env, c) ==
  LET dirs == [ env EXCEPT !.BORG_BASE_DIR = BaseDir, !.BORG_CACHE_DIR = CacheDir ]
      enc == IF Truthy(c.passphrase)
             THEN [ dirs EXCEPT !.BORG_PASSPHRASE = c.passphrase ]
             ELSE [ dirs EXCEPT !.BORG_UNKNOWN_UNENCRYPTED_REPO_ACCESS_IS_OK = "yes" ]
  IN [ enc EXCEPT !.BORG_RSH = SshCommand ]

\* _setup_environment: the assignments to os.environ.
SetupEnvironment(env, c) ==
  LET dirs == [ env EXCEPT !.BORG_BASE_DIR = BaseDir, !.BORG_CACHE_DIR = CacheDir ]
      enc == IF Truthy(c.passphrase)
             THEN [ dirs EXCEPT !.BORG_PASSPHRASE = c.passphrase,
                                !.BORG_UNKNOWN_UNENCRYPTED_REPO_ACCESS_IS_OK = None ]
             ELSE [ dirs EXCEPT !.BORG_UNKNOWN_UNENCRYPTED_REPO_ACCESS_IS_OK = "yes",
                                !.BORG_PASSPHRASE = None ]
  IN [ enc EXCEPT !.BORG_RSH = SshCommand ]

\* -------------------------------------------------------------------- tar
\* A faulty variant of PrepareTarCommand: the helper is used whenever the
\* capabilities allow it, installed or not.
PrepareTarCommandMutNoWhich(caps, which) ==
  IF caps.use_parallel
  THEN [ compress_program |-> "pigz", p |-> caps.compression_threads ]
  ELSE [ compress_program |-> None, p |-> 0 ]

\* _prepare_tar_command, and the same lines of _extract_nested_archive:
\* ["tar"], extended by --use-compress-program "pigz -p <threads>".
PrepareTarCommand(caps, which) ==
  IF caps.use_parallel /\ which
  THEN [ compress_program |-> "pigz", p |-> caps.compression_threads ]
  ELSE [ compress_program |-> None, p |-> 0 ]

\* --------------------------------------------------------- temporary files
\* _cleanup_temp_files' body: rmtree if the directory exists; whether the
\* directory exists afterwards, and what the method logs.
RemoveWorkDir(exists, ok) ==
  IF exists
  THEN [ exists |-> ~ok, res |-> IF ok THEN "ok" ELSE "fail" ]
  ELSE [ exists |-> FALSE, res |-> "ok" ]

\* ------------------------------------------------------ repository health
\* What `borg info` can answer: its exit code and which keywords its
\* stderr holds ("passphrase" or "authentication"; "does not exist";
\* an integrity complaint).
ProbeResults ==
  [ rc : {0, 1, 2}, auth : BOOLEAN, missing : BOOLEAN, integrity : BOOLEAN ]

NoProbe == [ rc |-> -1, auth |-> FALSE, missing |-> FALSE, integrity |-> FALSE ]

\* What the command log keeps of an answer of `borg info`: that it
\* succeeded, or that it failed with or without the words "passphrase" or
\* "authentication" in its stderr.
ProbeAnswer(r) ==
  IF r.rc = 0 THEN "ok" ELSE IF r.auth THEN "auth" ELSE "fail"

\* Two faulty variants of ClassifyProbe, against which the properties that
\* rest on it are tested: exit code 0 taken for a missing repository, and
\* the authentication test placed after the missing-repository test.
ClassifyProbeMutZeroMissing(r) ==
  IF r.auth THEN "auth"
  ELSE IF r.missing \/ r.rc = 2 \/ r.rc = 0 THEN "missing"
  ELSE "other"

ClassifyProbeMutAuthLate(r) ==
  IF r.rc = 0 THEN "ready"
  ELSE IF r.missing \/ r.rc = 2 THEN "missing"
  ELSE IF r.auth THEN "auth"
  ELSE "other"

\* A faulty variant of ClassifyProbe: the keywords of stderr are looked at
\* before the exit code.
ClassifyProbeMutKeywordsFirst(r) ==
  IF r.auth THEN "auth"
  ELSE IF r.rc = 0 THEN "ready"
  ELSE IF r.missing \/ r.rc = 2 THEN "missing"
  ELSE "other"

\* _check_repo_exists: the branch taken for a probe answer.
ClassifyProbe(r) ==
  IF r.rc = 0 THEN "ready"
  ELSE IF r.auth THEN "auth"
  ELSE IF r.missing \/ r.rc = 2 THEN "missing"
  ELSE "other"

\* A faulty variant of InitEncryption: the passphrase is not looked at.
InitEncryptionMutAlwaysNone(passphrase) == "none"

\* A faulty variant of InitEncryption: `is not None` in place of truthiness.
InitEncryptionMutNotNone(passphrase) ==
  IF passphrase # None THEN "repokey-blake2" ELSE "none"

\* _initialize_new_repo: the --encryption mode of borg init.
InitEncryption(passphrase) ==
  IF Truthy(passphrase) THEN "repokey-blake2" ELSE "none"

\* create_backup / restore_backup: the test that sends a failed health
\* check to repair_repository.
WantsRepair(msg) == "authentication" \in msg \/ "integrity" \in msg

\* ------------------------------------------------------------- retention
\* Python's s[:stop].
PySliceTo(s, stop) ==
  LET n == Len(s)
      e == IF stop < 0 THEN Max(0, n + stop) ELSE Min(n, stop)
  IN SubSeq(s, 1, e)

\* list.sort(key=date) is stable: x goes after every entry not younger.
InsertByDate(s, x) ==
  LET k == Cardinality({ i \in 1..Len(s) : s[i].date <= x.date })
  IN SubSeq(s, 1, k) \o <<x>> \o SubSeq(s, k + 1, Len(s))

RECURSIVE SortByDate(_)
SortByDate(s) ==
  IF s = <<>> THEN <<>>
  ELSE InsertByDate(SortByDate(SubSeq(s, 1, Len(s) - 1)), s[Len(s)])

\* A faulty variant of ToRemove: the slice keeps one entry too few.
ToRemoveMutOffByOne(backups, keep) ==
  IF Len(backups) > keep THEN PySliceTo(backups, 0 - keep + 1) ELSE <<>>

\* A faulty variant of ToRemove: the slice is taken from the wrong end,
\* backups[keep:], so that the oldest are kept.
ToRemoveMutKeepsOldest(backups, keep) ==
  SubSeq(backups, Min(keep, Len(backups)) + 1, Len(backups))

\* _cleanup_via_api: the entries to delete.
ToRemove(backups, keep) ==
  IF Len(backups) > keep THEN PySliceTo(backups, 0 - keep) ELSE <<>>

\* The date patterns of a listing of n entries: the entries in any order of
\* n distinct dates, or all of one date.
DatePatterns(n) ==
  { d \in [1..n -> 1..n] :
      \/ \A i, j \in 1..n : i # j => d[i] # d[j]
      \/ \A i \in 1..n : d[i] = 1 }

\* What GET /backups can list: up to MaxSnapshots snapshots, slugs distinct.
Listings ==
  UNION { { [ i \in 1..n |-> [ slug |-> i, date |-> d[i] ] ] : d \in DatePatterns(n) }
          : n \in 0..MaxSnapshots }

\* What GET /backups can come back with: a status other than 200, a
\* RequestException, nothing, or 200 with a body holding `result` and the
\* listing.
GetResponses ==
  { [ kind |-> "http_error", result |-> "", backups |-> <<>> ],
    [ kind |-> "request_exception", result |-> "", backups |-> <<>> ],
    [ kind |-> "unanswered", result |-> "", backups |-> <<>> ] }
  \cup [ kind : {"ok"}, result : {"ok", "error"}, backups : Listings ]

\* ------------------------------------------------------------ restore
ArchiveNames == <<"a1", "a2", "a3", "a4", "a5", "a6">>

\* What `borg list --json` can report, up to m archives: archive names are
\* unique.
ArchiveListingsUpTo(m) ==
  UNION { { [ i \in 1..n |-> [ name |-> ArchiveNames[i], raw_time |-> d[i] ] ]
            : d \in DatePatterns(n) }
          : n \in 0..m }

ArchiveListings == ArchiveListingsUpTo(MaxArchives)

\* What `borg list --json` can come back with: a failure of the command or
\* of the parsing of its output, or the archives.
ListResponses ==
  { [ kind |-> "fail", archives |-> <<>> ] } \cup [ kind : {"ok"}, archives : ArchiveListings ]

\* A faulty variant of InsertByTimeDesc: the sort is not reversed.
InsertByTimeDescMutAscending(s, x) ==
  LET k == Cardinality({ i \in 1..Len(s) : s[i].raw_time <= x.raw_time })
  IN SubSeq(s, 1, k) \o <<x>> \o SubSeq(s, k + 1, Len(s))

\* A faulty variant of InsertByTimeDesc: of two archives with the same
\* timestamp only the first is kept.
InsertByTimeDescMutDropsTie(s, x) ==
  LET k == Cardinality({ i \in 1..Len(s) : s[i].raw_time >= x.raw_time })
  IN IF \E i \in 1..Len(s) : s[i].raw_time = x.raw_time
     THEN s
     ELSE SubSeq(s, 1, k) \o <<x>> \o SubSeq(s, k + 1, Len(s))

\* sort(key=raw_time, reverse=True) is stable too: x goes after every
\* entry not older.
InsertByTimeDesc(s, x) ==
  LET k == Cardinality({ i \in 1..Len(s) : s[i].raw_time >= x.raw_time })
  IN SubSeq(s, 1, k) \o <<x>> \o SubSeq(s, k + 1, Len(s))

RECURSIVE SortByTimeDesc(_)
SortByTimeDesc(s) ==
  IF s = <<>> THEN <<>>
  ELSE InsertByTimeDesc(SortByTimeDesc(SubSeq(s, 1, Len(s) - 1)), s[Len(s)])

\* The values of BACKUP_NAME and BACKUP_INDEX the model draws from.
BackupNames == {None, "", "a1", "zz"}

\* BACKUP_INDEX against a listing of n archives: unset, empty, not a number,
\* or a number from below the range to above it.
BackupIndexes(n) ==
  { [ kind |-> "unset", val |-> 0 ], [ kind |-> "empty", val |-> 0 ],
    [ kind |-> "text", val |-> 0 ] }
  \cup [ kind : {"int"}, val : -1..(n + 1) ]

\* A faulty variant of SelectBackupToRestore: a name that is not in the
\* listing is passed over and the index or the newest archive is taken.
SelectBackupToRestoreMutFallsBack(backups, name, index) ==
  IF Truthy(name) /\ \E i \in 1..Len(backups) : backups[i].name = name
  THEN name
  ELSE IF index.kind \in {"text", "int"}
  THEN IF index.kind = "text" THEN None
       ELSE IF 0 <= index.val - 1 /\ index.val - 1 < Len(backups)
            THEN backups[index.val].name ELSE None
  ELSE IF backups # <<>> THEN backups[1].name ELSE None

\* A faulty variant of SelectBackupToRestore: BACKUP_INDEX is taken as
\* 0-based.
SelectBackupToRestoreMutZeroBased(backups, name, index) ==
  IF Truthy(name)
  THEN IF \E i \in 1..Len(backups) : backups[i].name = name THEN name ELSE None
  ELSE IF index.kind \in {"text", "int"}
  THEN IF index.kind = "text" THEN None
       ELSE IF 0 <= index.val /\ index.val < Len(backups)
            THEN backups[index.val + 1].name ELSE None
  ELSE IF backups # <<>> THEN backups[1].name ELSE None

\* A faulty variant of SelectBackupToRestore: a name given in BACKUP_NAME is
\* returned without being looked up in the listing.
SelectBackupToRestoreMutTrustsName(backups, name, index) ==
  IF Truthy(name)
  THEN name
  ELSE IF index.kind \in {"text", "int"}
  THEN IF index.kind = "text" THEN None
       ELSE IF 0 <= index.val - 1 /\ index.val - 1 < Len(backups)
            THEN backups[index.val].name ELSE None
  ELSE IF backups # <<>> THEN backups[1].name ELSE None

\* _select_backup_to_restore: the archive name, or None.
SelectBackupToRestore(backups, name, index) ==
  IF Truthy(name)
  THEN IF \E i \in 1..Len(backups) : backups[i].name = name THEN name ELSE None
  ELSE IF index.kind \in {"text", "int"}
  THEN IF index.kind = "text" THEN None
       ELSE IF 0 <= index.val - 1 /\ index.val - 1 < Len(backups)
            THEN backups[index.val].name ELSE None
  ELSE IF backups # <<>> THEN backups[1].name ELSE None

\* ------------------------------------------------------------------ state
VARIABLES
  mode,      \* "backup" or "restore": which workflow this process runs
  cfg,       \* the BorgConfig object
  tokens,    \* which of SUPERVISOR_TOKEN, HASSIO_TOKEN the environment holds
  secDir,    \* <base_dir>/.config/borg/security exists
  workDir,   \* config.backup_dir exists
  pc,        \* the position of the process
  status,    \* what was published on sensor.borg_backup_status, in order
  log,       \* the external commands issued, in order, with their results
  exitCode,  \* -1 while undecided; the exit status once decided
  hc,        \* init_borg_repo's invocation: caller, probe answer, init result
  exc,       \* the exception init_borg_repo is raising
  api,       \* the token loop of the API call in progress
  slug,      \* the slug of the snapshot this run created
  nested,    \* _process_nested_archives: archives found, extracted, unlinked
  pr,        \* _cleanup_via_api's locals; of `response`: the status of the last
             \* DELETE, and the `result` of the listing while it holds the listing
  archives,  \* restore_backup's `backups`
  renv,      \* BACKUP_NAME and BACKUP_INDEX as _select_backup_to_restore read them
  selected,  \* restore_backup's `backup_to_restore`
  pub,       \* the last step that called publish_entity: the number of calls,
             \* the values they can return, the positions control can be at after
  machine,   \* what the platform reports of cores, memory and storage
  capabilities,  \* self.capabilities
  listed,    \* the archives `borg list --json` reported to restore_backup, in
             \* the order of the tool
  environ,   \* os.environ: the variables that configure borg
  pigz,      \* shutil.which("pigz") finds the program
  tars       \* the tar command lines built, in order

vars == << mode, cfg, tokens, secDir, workDir, pc, status, log, exitCode, hc,
           exc, api, slug, nested, pr, archives, renv, selected, pub, machine,
           capabilities, listed, environ, pigz, tars >>

NoHc == [ ctx |-> "none", probe |-> NoProbe, init |-> "none" ]
NoExc == [ type |-> "none", msg |-> {} ]
NoApi == [ tok |-> 0 ]
NoNested == [ found |-> 0, extracted |-> 0, unlinked |-> 0 ]
NoPr == [ backups |-> <<>>, to_remove |-> <<>>, i |-> 0, issued |-> <<>>,
          response |-> 0, result |-> "" ]
NoEnv == [ name |-> None, index |-> [ kind |-> "unset", val |-> 0 ] ]

Entry(cmd, res, arg) == [ cmd |-> cmd, res |-> res, arg |-> arg ]
Published(state, reason) == [ state |-> state, reason |-> reason ]

ErrorState == IF mode = "backup" THEN "error" ELSE "restore_error"

\* ------------------------------------------------------------ token loop
\* The environment of the process is fixed; the model draws the two token
\* variables when a token loop first reads them (os.environ.get), and every
\* later read sees the same values.
TokenEnvs == [ read : {TRUE}, sup : BOOLEAN, hassio : BOOLEAN ]

ReadTokens(t) ==
  /\ t \in TokenEnvs
  /\ tokens.read => t = tokens
  /\ tokens' = t

TokenName(i) == IF i = 1 THEN "SUPERVISOR_TOKEN" ELSE "HASSIO_TOKEN"

\* for token_name, token_value in [SUPERVISOR_TOKEN, HASSIO_TOKEN]: the
\* first position from i on whose token is set (3: the loop is over).
NextToken(t, i) ==
  IF i <= 1 /\ t.sup THEN 1
  ELSE IF i <= 2 /\ t.hassio THEN 2
  ELSE 3

\* ---------------------------------------------------------------- requests
\* The timeout argument of each call of requests, in seconds: the POSTs of
\* _create_backup_via_api, _restore_via_api and publish_entity pass one, the
\* GET and the DELETE of _cleanup_via_api pass none.
Timeout(cmd) ==
  CASE cmd = "snapshot_post" -> 300
    [] cmd = "restore_post" -> 300
    [] cmd = "publish" -> 10
    [] cmd = "get_backups" -> NoTimeout
    [] cmd = "delete" -> NoTimeout

\* What becomes of a request the Supervisor never answers: with a timeout
\* requests raises Timeout, a RequestException; without one the call does
\* not return.
Unanswered(cmd) ==
  IF Timeout(cmd) # NoTimeout THEN "request_exception" ELSE "blocked"

\* What the caller sees of what the network did with its request.
Outcome(cmd, out) == IF out = "unanswered" THEN Unanswered(cmd) ELSE out

\* ----------------------------------------------------------- publication
\* What one POST of publish_entity can come back with: 200 or 201, another
\* status, a RequestException, or nothing.
PublishAnswers == {"ok", "http_error", "request_exception", "unanswered"}

\* publish_entity's return value: False when PUBLISH_ENTITIES is not "true",
\* True at the first token set whose POST is answered 200 or 201, else False.
PublishEntity(enabled, t, ans) ==
  IF ~enabled THEN FALSE
  ELSE IF t.sup /\ Outcome("publish", ans[1]) = "ok" THEN TRUE
  ELSE IF t.hassio /\ Outcome("publish", ans[2]) = "ok" THEN TRUE
  ELSE FALSE

\* The values a call of publish_entity can return with tokens t, whatever
\* PUBLISH_ENTITIES is and whatever the POSTs come back with.
PublishReturnsWith ==
  [ t \in TokenEnvs |->
      { PublishEntity(en, t, ans) : en \in BOOLEAN, ans \in [1..2 -> PublishAnswers] } ]

\* The values a call of publish_entity can return in this process.
PublishReturns ==
  UNION { PublishReturnsWith[t] : t \in { e \in TokenEnvs : tokens.read => e = tokens } }

\* The sets of values up to n calls of publish_entity can return.
ReturnSets(n) ==
  { rets \in SUBSET PublishReturns : rets # {} /\ Cardinality(rets) <= n }

\* A faulty variant of AfterPublish: a publication that failed ends the run.
AfterPublishMutAborts(rets, next) == IF FALSE \in rets THEN "cleanup" ELSE next

\* Where control goes after calls of publish_entity that returned rets,
\* bound for next: every call is an expression statement, its value dropped.
AfterPublish(rets, next) == next

\* A step that calls publish_entity up to n times and goes on to next: the
\* position AfterPublish gives for some set of values returned.
PublishAndGo(n, next) ==
  LET sets == ReturnSets(n)
      fork == { AfterPublish(rets, next) : rets \in sets }
  IN /\ pc' \in fork
     /\ pub' = [ calls |-> n, rets |-> sets, fork |-> fork ]

\* The calls of publish_entity in _publish_error_status: backup.py publishes
\* the status and the availability sensor, restore.py the status.
ErrorCalls == IF mode = "backup" THEN 2 ELSE 1

Init ==
  /\ mode \in {"backup", "restore"}
  /\ cfg \in RunOptions
  /\ mode = "restore" => cfg.keep_snapshots = MinKeep   \* read by the backup workflow only
  /\ tokens = [ read |-> FALSE, sup |-> FALSE, hassio |-> FALSE ]
  /\ secDir \in BOOLEAN
  /\ workDir = FALSE
  /\ pc = "load_config"
  /\ status = <<>>
  /\ log = <<>>
  /\ exitCode = -1
  /\ hc = NoHc
  /\ exc = NoExc
  /\ api = NoApi
  /\ slug = None
  /\ nested = NoNested
  /\ pr = NoPr
  /\ archives = <<>>
  /\ renv = NoEnv
  /\ selected = None
  /\ pub = [ calls |-> 0, rets |-> {}, fork |-> {} ]
  /\ machine \in RunMachines
  /\ capabilities = NoCaps
  /\ listed = <<>>
  /\ environ \in InheritedEnvirons
  /\ pigz = TRUE
  /\ tars = <<>>

\* ----------------------------------------------------------- construction
\* BorgCommon.__init__: _load_config, whose handlers end the process when
\* _validate_config raises; then _detect_system_capabilities and
\* _setup_environment.
LoadConfig ==
  /\ pc = "load_config"
  /\ IF ValidationError(cfg) # None
     THEN /\ pc' = "exited"
          /\ exitCode' = ConfigErrorExit
          /\ UNCHANGED << cfg, workDir, capabilities, environ >>
     ELSE /\ cfg' = Normalize(cfg)
          /\ capabilities' = DetectSystemCapabilities(machine)
          /\ environ' = SetupEnvironment(environ, cfg')
          /\ workDir' = TRUE
          /\ pc' = "constructed"
          /\ UNCHANGED exitCode
  /\ UNCHANGED << listed, pigz, tars, machine, mode, tokens, secDir, status, log, hc, exc, api, slug, nested,
                  pr, archives, renv, selected, pub >>

\* BorgBackup.__init__: _publish_initial_status.
PublishInitialStatus ==
  /\ pc = "constructed"
  /\ mode = "backup"
  /\ status' = Append(status, Published("idle", ""))
  /\ PublishAndGo(4, "ready_to_run")
  /\ UNCHANGED << listed, environ, pigz, tars, machine, capabilities, mode, cfg, tokens, secDir, workDir, log, exitCode, hc, exc, api,
                  slug, nested, pr, archives, renv, selected >>

\* BorgRestore.__init__: _publish_restore_entities, up to init_borg_repo.
PublishRestoreEntities ==
  /\ pc = "constructed"
  /\ mode = "restore"
  /\ status' = Append(status, Published("restore_mode", ""))
  /\ hc' = [ NoHc EXCEPT !.ctx = "ctor" ]
  /\ PublishAndGo(1, "hc_probe")
  /\ UNCHANGED << listed, environ, pigz, tars, machine, capabilities, mode, cfg, tokens, secDir, workDir, log, exitCode, exc, api,
                  slug, nested, pr, archives, renv, selected >>

\* _publish_restore_entities: list_available_backups (which swallows every
\* failure) and the two entities published from its result.
CtorListBackups ==
  /\ pc = "ctor_list"
  /\ log' = Append(log, Entry("borg_list", "any", "ctor"))
  /\ PublishAndGo(2, "ready_to_run")
  /\ UNCHANGED << listed, environ, pigz, tars, machine, capabilities, mode, cfg, tokens, secDir, workDir, status, exitCode, hc, exc,
                  api, slug, nested, pr, archives, renv, selected >>

\* create_backup / restore_backup: the first publication, then init_borg_repo.
BeginRun ==
  /\ pc = "ready_to_run"
  /\ status' = Append(status,
                      Published(IF mode = "backup" THEN "running" ELSE "restoring", ""))
  /\ hc' = [ NoHc EXCEPT !.ctx = "main" ]
  /\ PublishAndGo(1, "hc_probe")
  /\ UNCHANGED << listed, environ, pigz, tars, machine, capabilities, mode, cfg, tokens, secDir, workDir, log, exitCode, exc, api,
                  slug, nested, pr, archives, renv, selected >>

\* ------------------------------------------------------------ exit paths
\* A faulty variant of LeaveTry: sys.exit(1) ends the process at once.
LeaveTryMutExitSkipsFinally(code) == IF code = 1 THEN "exited" ELSE "cleanup"

\* Where control goes when the try block of create_backup / restore_backup
\* is left, by return, exception or sys.exit: the finally clause.
LeaveTry(code) == "cleanup"

\* _publish_error_status(reason); sys.exit(1).
FatalExit(reason) ==
  /\ status' = Append(status, Published(ErrorState, reason))
  /\ exitCode' = RunErrorExit
  /\ PublishAndGo(ErrorCalls, LeaveTry(1))

\* -------------------------------------------------------- health check
\* _check_repo_exists: borg info and its classification.
CheckRepoExists ==
  /\ pc = "hc_probe"
  /\ \E r \in ProbeResults :
       LET class == ClassifyProbe(r) IN
       /\ hc' = [ hc EXCEPT !.probe = r ]
       /\ log' = Append(log, Entry("info", ProbeAnswer(r), hc.ctx))
       /\ CASE class = "ready" -> pc' = "hc_return" /\ UNCHANGED exc
            [] class = "auth" ->
                 /\ pc' = "hc_raise"
                 /\ exc' = [ type |-> "ValueError", msg |-> AuthErrorText(cfg.passphrase) ]
            [] OTHER -> pc' = "hc_init" /\ UNCHANGED exc
  /\ UNCHANGED << listed, environ, pigz, tars, machine, capabilities, mode, cfg, tokens, secDir, workDir, status, exitCode, api, slug,
                  nested, pr, archives, renv, selected, pub >>

\* _initialize_new_repo: borg init, unless the security directory exists.
InitializeNewRepo ==
  /\ pc = "hc_init"
  /\ IF secDir
     THEN /\ hc' = [ hc EXCEPT !.init = "skipped" ]
          /\ pc' = "hc_return"
          /\ UNCHANGED << log, secDir, exc >>
     ELSE \E ok \in BOOLEAN :
          LET enc == InitEncryption(cfg.passphrase) IN
          /\ log' = Append(log, Entry("init", IF ok THEN "ok" ELSE "fail", enc))
          /\ hc' = [ hc EXCEPT !.init = IF ok THEN "ok" ELSE "fail" ]
          /\ IF ok
             THEN pc' = "hc_return" /\ secDir' = TRUE /\ UNCHANGED exc
             ELSE /\ pc' = "hc_raise"
                  /\ exc' = [ type |-> "CalledProcessError",
                              msg |-> CalledProcessErrorText(
                                        {"borg", "init", enc},
                                        cfg.repo_url) ]
                  /\ UNCHANGED secDir
  /\ UNCHANGED << listed, environ, pigz, tars, machine, capabilities, mode, cfg, tokens, workDir, status, exitCode, api, slug, nested,
                  pr, archives, renv, selected, pub >>

\* The stage that follows a health check that returned.
AfterHealth(ctx) ==
  IF ctx = "ctor" THEN "ctor_list"
  ELSE IF mode = "backup" THEN "create_ha_backup" ELSE "list"

\* init_borg_repo returned to its caller; create_backup's first call is
\* followed by the publication of the availability sensor.
HealthReturn ==
  /\ pc = "hc_return"
  /\ IF mode = "backup" /\ hc.ctx = "main"
     THEN PublishAndGo(1, AfterHealth(hc.ctx))
     ELSE pc' = AfterHealth(hc.ctx) /\ UNCHANGED pub
  /\ hc' = NoHc
  /\ UNCHANGED << listed, environ, pigz, tars, machine, capabilities, mode, cfg, tokens, secDir, workDir, status, log, exitCode, exc,
                  api, slug, nested, pr, archives, renv, selected >>

\* init_borg_repo raised: the handlers of its three callers.
HealthRaise ==
  /\ pc = "hc_raise"
  /\ hc' = NoHc
  /\ exc' = NoExc
  /\ CASE hc.ctx = "ctor" ->
            PublishAndGo(2, "ready_to_run") /\ UNCHANGED << status, exitCode >>
       [] hc.ctx = "main" /\ exc.type = "ValueError" -> FatalExit("auth")
       [] hc.ctx = "main" /\ exc.type # "ValueError" /\ WantsRepair(exc.msg) ->
            /\ status' = Append(status, Published("repairing", "init"))
            /\ PublishAndGo(1, "repair")
            /\ UNCHANGED exitCode
       [] hc.ctx = "main" /\ exc.type # "ValueError" /\ ~WantsRepair(exc.msg) ->
            FatalExit("init")
       [] OTHER -> FatalExit("repair")
  /\ UNCHANGED << listed, environ, pigz, tars, machine, capabilities, mode, cfg, tokens, secDir, workDir, log, api, slug, nested, pr,
                  archives, renv, selected >>

\* A faulty variant of AfterRepairCtx: the second health check runs under
\* the handlers of the first.
AfterRepairCtxMutMain == "main"

\* The caller on whose behalf the health check runs again after a repair:
\* the try block of the repair branch.
AfterRepairCtx == "repair"

\* repair_repository, inside the handler's own try block.
RepairRepository ==
  /\ pc = "repair"
  /\ \E ok \in BOOLEAN :
       /\ log' = Append(log, Entry("check_repair", IF ok THEN "ok" ELSE "fail", ""))
       /\ IF ok
          THEN /\ hc' = [ NoHc EXCEPT !.ctx = AfterRepairCtx ]
               /\ pc' = "hc_probe"
               /\ UNCHANGED << status, exitCode, pub >>
          ELSE FatalExit("repair") /\ UNCHANGED hc
  /\ UNCHANGED << listed, environ, pigz, tars, machine, capabilities, mode, cfg, tokens, secDir, workDir, exc, api, slug, nested, pr,
                  archives, renv, selected >>

\* What one request of a token loop can come back with: 200 and result ok,
\* 200 and another result, another status, a RequestException, or nothing.
PostOutcomes == {"ok", "api_error", "http_error", "request_exception", "unanswered"}

\* ---------------------------------------------------------- backup stages
\* create_backup: publish creating_ha_backup, enter _create_backup_via_api.
CreateHaBackup ==
  /\ pc = "create_ha_backup"
  /\ status' = Append(status, Published("creating_ha_backup", ""))
  /\ \E t \in TokenEnvs : ReadTokens(t) /\ api' = [ tok |-> NextToken(t, 1) ]
  /\ PublishAndGo(1, "snapshot_post")
  /\ UNCHANGED << listed, environ, pigz, tars, machine, capabilities, mode, cfg, secDir, workDir, log, exitCode, hc, exc, slug,
                  nested, pr, archives, renv, selected >>

\* _create_backup_via_api: one turn of the token loop, or the RuntimeError
\* after it, which create_backup's handler turns into the error exit.
CreateBackupViaApi ==
  /\ pc = "snapshot_post"
  /\ IF api.tok = 3
     THEN /\ FatalExit("snapshot")
          /\ api' = NoApi
          /\ UNCHANGED << log, slug >>
     ELSE \E answer \in PostOutcomes :
          LET out == Outcome("snapshot_post", answer) IN
          /\ log' = Append(log, Entry("snapshot_post",
                                      IF out = "ok" THEN "ok" ELSE "fail",
                                      TokenName(api.tok)))
          /\ IF out = "ok"
             THEN /\ slug' = "snap"
                  /\ api' = NoApi
                  /\ pc' = "unpack"
             ELSE /\ api' = [ tok |-> NextToken(tokens, api.tok + 1) ]
                  /\ UNCHANGED << slug, pc >>
          /\ UNCHANGED << status, exitCode, pub >>
  /\ UNCHANGED << listed, environ, pigz, tars, machine, capabilities, mode, cfg, tokens, secDir, workDir, hc, exc, nested, pr,
                  archives, renv, selected >>

\* create_backup: publish unpacking; unpack_backup's top-level tar, then
\* the rglob that finds the nested archives.
UnpackBackup ==
  /\ pc = "unpack"
  /\ \E ok \in BOOLEAN :
       /\ log' = Append(log, Entry("tar", IF ok THEN "ok" ELSE "fail", slug))
       /\ tars' = Append(tars, PrepareTarCommand(capabilities, pigz))
       /\ IF ok
          THEN /\ \E n \in 0..MaxNested :
                    nested' = [ found |-> n, extracted |-> 0, unlinked |-> 0 ]
               /\ status' = Append(status, Published("unpacking", ""))
               /\ PublishAndGo(1, "nested")
               /\ UNCHANGED exitCode
          ELSE /\ status' = status \o << Published("unpacking", ""),
                                         Published(ErrorState, "unpack") >>
               /\ exitCode' = RunErrorExit
               /\ PublishAndGo(1 + ErrorCalls, LeaveTry(1))
               /\ UNCHANGED nested
  /\ UNCHANGED << listed, environ, pigz, machine, capabilities, mode, cfg, tokens, secDir, workDir, hc, exc, api, slug, pr,
                  archives, renv, selected >>

\* A faulty variant of ProcessNestedArchive: a failed extraction is logged
\* and the loop goes on to the next nested archive.
ProcessNestedArchiveMutGoesOn ==
  /\ pc = "nested"
  /\ nested.extracted < nested.found
  /\ \E out \in {"ok", "extract_fail", "unlink_fail"} :
       /\ log' = Append(log, Entry("tar_nested", IF out = "ok" THEN "ok" ELSE "fail", ""))
       /\ tars' = Append(tars, PrepareTarCommand(capabilities, pigz))
       /\ nested' = [ nested EXCEPT !.extracted = @ + 1, !.unlinked = @ + 1 ]
  /\ UNCHANGED << listed, environ, pigz, machine, capabilities, mode, cfg, tokens, secDir, workDir, status, exitCode, pc, hc, exc,
                  api, slug, pr, archives, renv, selected, pub >>

\* A faulty variant of ProcessNestedArchive: the nested archive is unlinked
\* before it is extracted.
ProcessNestedArchiveMutUnlinksFirst ==
  /\ pc = "nested"
  /\ nested.extracted < nested.found
  /\ \E out \in {"ok", "extract_fail", "unlink_fail"} :
       /\ log' = Append(log, Entry("tar_nested", IF out = "ok" THEN "ok" ELSE "fail", ""))
       /\ tars' = Append(tars, PrepareTarCommand(capabilities, pigz))
       /\ IF out = "ok"
          THEN /\ nested' = [ nested EXCEPT !.extracted = @ + 1, !.unlinked = @ + 1 ]
               /\ UNCHANGED << status, exitCode, pc, pub >>
          ELSE /\ nested' = [ nested EXCEPT
                                !.unlinked = IF out = "extract_fail" THEN @ + 1 ELSE @ ]
               /\ FatalExit("nested")
  /\ UNCHANGED << listed, environ, pigz, machine, capabilities, mode, cfg, tokens, secDir, workDir, hc, exc, api, slug, pr,
                  archives, renv, selected >>

\* _process_nested_archives: one turn of the loop: extract, then unlink.
ProcessNestedArchive ==
  /\ pc = "nested"
  /\ nested.extracted < nested.found
  /\ \E out \in {"ok", "extract_fail", "unlink_fail"} :
       /\ log' = Append(log, Entry("tar_nested", IF out = "ok" THEN "ok" ELSE "fail", ""))
       /\ tars' = Append(tars, PrepareTarCommand(capabilities, pigz))
       /\ IF out = "ok"
          THEN /\ nested' = [ nested EXCEPT !.extracted = @ + 1, !.unlinked = @ + 1 ]
               /\ UNCHANGED << status, exitCode, pc, pub >>
          ELSE /\ nested' = [ nested EXCEPT
                                !.extracted = IF out = "unlink_fail" THEN @ + 1 ELSE @ ]
               /\ FatalExit("nested")
  /\ UNCHANGED << listed, environ, pigz, machine, capabilities, mode, cfg, tokens, secDir, workDir, hc, exc, api, slug, pr,
                  archives, renv, selected >>

\* create_backup: publish creating_borg_backup; _create_borg_backup.
CreateBorgBackup ==
  /\ pc = "nested"
  /\ nested.extracted = nested.found
  /\ \E ok \in BOOLEAN :
       /\ log' = Append(log, Entry("create", IF ok THEN "ok" ELSE "fail", slug))
       /\ IF ok
          THEN /\ status' = Append(status, Published("creating_borg_backup", ""))
               /\ PublishAndGo(1, "prune")
               /\ UNCHANGED exitCode
          ELSE /\ status' = status \o << Published("creating_borg_backup", ""),
                                         Published(ErrorState, "create") >>
               /\ exitCode' = RunErrorExit
               /\ PublishAndGo(1 + ErrorCalls, LeaveTry(1))
  /\ nested' = NoNested
  /\ UNCHANGED << listed, environ, pigz, tars, machine, capabilities, mode, cfg, tokens, secDir, workDir, hc, exc, api, slug, pr,
                  archives, renv, selected >>

\* A faulty variant of CleanupOldBackups: the publication of cleaning_up is
\* left out.
CleanupOldBackupsMutNoPublish ==
  /\ pc = "prune"
  /\ \E t \in TokenEnvs : ReadTokens(t) /\ api' = [ tok |-> NextToken(t, 1) ]
  /\ pr' = NoPr
  /\ pc' = "prune_get"
  /\ UNCHANGED << listed, environ, pigz, tars, machine, capabilities, mode, cfg, secDir, workDir, status, log, exitCode, hc, exc, slug,
                  nested, archives, renv, selected, pub >>

\* create_backup: publish cleaning_up; _cleanup_old_backups enters
\* _cleanup_via_api.
CleanupOldBackups ==
  /\ pc = "prune"
  /\ status' = Append(status, Published("cleaning_up", ""))
  /\ \E t \in TokenEnvs : ReadTokens(t) /\ api' = [ tok |-> NextToken(t, 1) ]
  /\ pr' = NoPr
  /\ PublishAndGo(1, "prune_get")
  /\ UNCHANGED << listed, environ, pigz, tars, machine, capabilities, mode, cfg, secDir, workDir, log, exitCode, hc, exc, slug,
                  nested, archives, renv, selected >>

\* A faulty variant of CleanupGetBackups: the RuntimeError after the token
\* loop is logged by _cleanup_old_backups and not raised again.
CleanupGetBackupsMutSwallows ==
  /\ pc = "prune_get"
  /\ IF api.tok = 3
     THEN /\ status' = Append(status, Published("completed", ""))
          /\ exitCode' = 0
          /\ PublishAndGo(3, LeaveTry(0))
          /\ api' = NoApi
          /\ UNCHANGED << log, pr >>
     ELSE \E resp \in GetResponses :
          LET kind == Outcome("get_backups", resp.kind) IN
          /\ IF kind = "blocked"
             THEN /\ log' = Append(log, Entry("get_backups", "blocked", TokenName(api.tok)))
                  /\ pc' = "blocked"
                  /\ UNCHANGED << pr, api >>
             ELSE IF kind # "ok"
             THEN /\ log' = Append(log, Entry("get_backups", "fail", TokenName(api.tok)))
                  /\ api' = [ tok |-> NextToken(tokens, api.tok + 1) ]
                  /\ UNCHANGED << pr, pc >>
             ELSE LET backups == SortByDate(resp.backups) IN
                  /\ log' = Append(log, Entry("get_backups", "ok", TokenName(api.tok)))
                  /\ pr' = [ backups |-> backups,
                             to_remove |-> ToRemove(backups, cfg.keep_snapshots),
                             i |-> 1, issued |-> <<>>, response |-> 0,
                             result |-> resp.result ]
                  /\ pc' = "prune_delete"
                  /\ UNCHANGED api
          /\ UNCHANGED << status, exitCode, pub >>
  /\ UNCHANGED << listed, environ, pigz, tars, machine, capabilities, mode, cfg, tokens, secDir, workDir, hc, exc, slug, nested,
                  archives, renv, selected >>

\* _cleanup_via_api: GET /backups with the current token, the sort and
\* the slice; or the RuntimeError after the loop.  Each answer lists what the
\* Supervisor holds at that moment; a GET that is never answered does not
\* return.
CleanupGetBackups ==
  /\ pc = "prune_get"
  /\ IF api.tok = 3
     THEN /\ FatalExit("prune")
          /\ api' = NoApi
          /\ UNCHANGED << log, pr >>
     ELSE \E resp \in GetResponses :
          LET kind == Outcome("get_backups", resp.kind) IN
          /\ IF kind = "blocked"
             THEN /\ log' = Append(log, Entry("get_backups", "blocked", TokenName(api.tok)))
                  /\ pc' = "blocked"
                  /\ UNCHANGED << pr, api >>
             ELSE IF kind # "ok"
             THEN /\ log' = Append(log, Entry("get_backups", "fail", TokenName(api.tok)))
                  /\ api' = [ tok |-> NextToken(tokens, api.tok + 1) ]
                  /\ UNCHANGED << pr, pc >>
             ELSE LET backups == SortByDate(resp.backups) IN
                  /\ log' = Append(log, Entry("get_backups", "ok", TokenName(api.tok)))
                  /\ pr' = [ backups |-> backups,
                             to_remove |-> ToRemove(backups, cfg.keep_snapshots),
                             i |-> 1, issued |-> <<>>, response |-> 0,
                             result |-> resp.result ]
                  /\ pc' = "prune_delete"
                  /\ UNCHANGED api
          /\ UNCHANGED << status, exitCode, pub >>
  /\ UNCHANGED << listed, environ, pigz, tars, machine, capabilities, mode, cfg, tokens, secDir, workDir, hc, exc, slug, nested,
                  archives, renv, selected >>

\* A faulty variant of CleanupDelete: after a RequestException the removal
\* loop goes on with the other token, on the listing the first one fetched.
CleanupDeleteMutKeepsListing ==
  /\ pc = "prune_delete"
  /\ pr.i <= Len(pr.to_remove)
  /\ \E answer \in {"ok", "http_error", "request_exception", "unanswered"} :
       LET s == pr.to_remove[pr.i].slug
           out == Outcome("delete", answer)
       IN
       /\ log' = Append(log, Entry("delete", IF out = "blocked" THEN "blocked" ELSE "sent",
                                   TokenName(api.tok)))
       /\ IF out = "blocked"
          THEN /\ pc' = "blocked"
               /\ UNCHANGED << pr, api >>
          ELSE IF out = "request_exception"
          THEN /\ api' = [ tok |-> Min(2, api.tok + 1) ]
               /\ UNCHANGED << pr, pc >>
          ELSE /\ pr' = [ pr EXCEPT !.issued = Append(@, s),
                                    !.response = IF out = "ok" THEN 200 ELSE 500,
                                    !.result = "",
                                    !.i = @ + 1 ]
               /\ UNCHANGED << api, pc >>
  /\ UNCHANGED << listed, environ, pigz, tars, machine, capabilities, mode, cfg, tokens, secDir, workDir, status, exitCode, hc, exc,
                  slug, nested, archives, renv, selected, pub >>

\* _cleanup_via_api: one DELETE of the removal loop.  An answer other than
\* 200 is logged and the loop goes on; a RequestException leaves this turn
\* of the token loop, whose locals the next turn binds anew; a DELETE that is
\* never answered does not return.
CleanupDelete ==
  /\ pc = "prune_delete"
  /\ pr.i <= Len(pr.to_remove)
  /\ \E answer \in {"ok", "http_error", "request_exception", "unanswered"} :
       LET s == pr.to_remove[pr.i].slug
           out == Outcome("delete", answer)
       IN
       /\ log' = Append(log, Entry("delete", IF out = "blocked" THEN "blocked" ELSE "sent",
                                   TokenName(api.tok)))
       /\ IF out = "blocked"
          THEN /\ pc' = "blocked"
               /\ UNCHANGED << pr, api >>
          ELSE IF out = "request_exception"
          THEN /\ pr' = NoPr
               /\ api' = [ tok |-> NextToken(tokens, api.tok + 1) ]
               /\ pc' = "prune_get"
          ELSE /\ pr' = [ pr EXCEPT !.issued = Append(@, s),
                                    !.response = IF out = "ok" THEN 200 ELSE 500,
                                    !.result = "",
                                    !.i = @ + 1 ]
               /\ UNCHANGED << api, pc >>
  /\ UNCHANGED << listed, environ, pigz, tars, machine, capabilities, mode, cfg, tokens, secDir, workDir, status, exitCode, hc, exc,
                  slug, nested, archives, renv, selected, pub >>

\* A faulty variant of PublishSuccess: a failure of borg info --json is not
\* swallowed and reaches the handler of create_backup.
PublishSuccessMutStatsRaise ==
  /\ pc = "prune_delete"
  /\ pr.i > Len(pr.to_remove)
  /\ \E ok \in BOOLEAN :
       /\ log' = Append(log, Entry("info_json", IF ok THEN "ok" ELSE "fail", ""))
       /\ IF ok
          THEN /\ status' = Append(status, Published("completed", ""))
               /\ exitCode' = 0
               /\ PublishAndGo(3, LeaveTry(0))
          ELSE /\ status' = status \o << Published("completed", ""),
                                         Published(ErrorState, "info_json") >>
               /\ exitCode' = RunErrorExit
               /\ PublishAndGo(2 + ErrorCalls, LeaveTry(1))
  /\ api' = NoApi
  /\ pr' = NoPr
  /\ UNCHANGED << listed, environ, pigz, tars, machine, capabilities, mode, cfg, tokens, secDir, workDir, hc, exc, slug, nested,
                  archives, renv, selected >>

\* _cleanup_via_api returned True; _publish_success_status (whose borg
\* info --json may fail and is swallowed); create_backup returns.
PublishSuccess ==
  /\ pc = "prune_delete"
  /\ pr.i > Len(pr.to_remove)
  /\ status' = Append(status, Published("completed", ""))
  /\ log' = Append(log, Entry("info_json", "any", ""))
  /\ exitCode' = 0
  /\ api' = NoApi
  /\ pr' = NoPr
  /\ PublishAndGo(3, LeaveTry(0))
  /\ UNCHANGED << listed, environ, pigz, tars, machine, capabilities, mode, cfg, tokens, secDir, workDir, hc, exc, slug, nested,
                  archives, renv, selected >>

\* --------------------------------------------------------- restore stages
\* restore_backup: publish listing_backups; list_available_backups, which
\* answers [] for every failure; the empty-list exit.
ListAvailableBackups ==
  /\ pc = "list"
  /\ \E resp \in ListResponses :
       LET backups == IF resp.kind = "fail" THEN <<>> ELSE SortByTimeDesc(resp.archives) IN
       /\ log' = Append(log, Entry("borg_list", resp.kind, ""))
       /\ listed' = IF resp.kind = "fail" THEN <<>> ELSE resp.archives
       /\ archives' = backups
       /\ IF backups = <<>>
          THEN /\ status' = status \o << Published("listing_backups", ""),
                                         Published(ErrorState, "no_backups") >>
               /\ exitCode' = RunErrorExit
               /\ PublishAndGo(1 + ErrorCalls, LeaveTry(1))
          ELSE /\ status' = Append(status, Published("listing_backups", ""))
               /\ PublishAndGo(1, "select")
               /\ UNCHANGED exitCode
  /\ UNCHANGED << environ, pigz, tars, machine, capabilities, mode, cfg, tokens, secDir, workDir, hc, exc, api, slug, nested,
                  pr, renv, selected >>

\* restore_backup: _select_backup_to_restore reads BACKUP_NAME and
\* BACKUP_INDEX and returns its choice.
SelectBackup ==
  /\ pc = "select"
  /\ \E name \in BackupNames, index \in BackupIndexes(Len(archives)) :
       /\ renv' = [ name |-> name, index |-> index ]
       /\ selected' = SelectBackupToRestore(archives, name, index)
  /\ pc' = "select_return"
  /\ UNCHANGED << listed, environ, pigz, tars, machine, capabilities, mode, cfg, tokens, secDir, workDir, status, log, exitCode, hc,
                  exc, api, slug, nested, pr, archives, pub >>

\* restore_backup: the no-selection exit.
NoBackupSelected ==
  /\ pc = "select_return"
  /\ selected = None
  /\ FatalExit("no_selection")
  /\ renv' = NoEnv
  /\ UNCHANGED << listed, environ, pigz, tars, machine, capabilities, mode, cfg, tokens, secDir, workDir, log, hc, exc, api, slug,
                  nested, pr, archives, selected >>

\* A faulty variant of ExtractFromBorg: the answer None of a failed
\* extraction is not tested and the run goes on.
ExtractFromBorgMutIgnoresFailure ==
  /\ pc = "select_return"
  /\ selected # None
  /\ renv' = NoEnv
  /\ \E ok \in BOOLEAN :
       log' = Append(log, Entry("extract", IF ok THEN "ok" ELSE "fail", selected))
  /\ status' = Append(status, Published("extracting", ""))
  /\ PublishAndGo(1, "restore_to_ha")
  /\ UNCHANGED << listed, environ, pigz, tars, machine, capabilities, mode, cfg, tokens, secDir, workDir, exitCode, hc, exc, api, slug,
                  nested, pr, archives, selected >>

\* restore_backup: publish extracting; extract_from_borg, which answers
\* None when borg extract fails; the failed-extraction exit.
ExtractFromBorg ==
  /\ pc = "select_return"
  /\ selected # None
  /\ renv' = NoEnv
  /\ \E ok \in BOOLEAN :
       /\ log' = Append(log, Entry("extract", IF ok THEN "ok" ELSE "fail", selected))
       /\ IF ok
          THEN /\ status' = Append(status, Published("extracting", ""))
               /\ PublishAndGo(1, "restore_to_ha")
               /\ UNCHANGED exitCode
          ELSE /\ status' = status \o << Published("extracting", ""),
                                         Published(ErrorState, "extract") >>
               /\ exitCode' = RunErrorExit
               /\ PublishAndGo(1 + ErrorCalls, LeaveTry(1))
  /\ UNCHANGED << listed, environ, pigz, tars, machine, capabilities, mode, cfg, tokens, secDir, workDir, hc, exc, api, slug, nested,
                  pr, archives, selected >>

\* restore_backup: what follows restore_to_ha answering False, n calls of
\* publish_entity made before it in the same step.
RestoreFailed(st, n) ==
  /\ status' = Append(st, Published(ErrorState, "restore"))
  /\ exitCode' = 0
  /\ PublishAndGo(n + ErrorCalls, LeaveTry(0))

\* restore_backup: publish restoring_to_ha; restore_to_ha up to the API
\* call: the glob for the snapshot file and its copy to /backup.
RestoreToHa ==
  /\ pc = "restore_to_ha"
  /\ \E found \in {"none", "copied", "copy_error"} :
       LET st == Append(status, Published("restoring_to_ha", "")) IN
       CASE found = "none" -> RestoreFailed(st, 1) /\ UNCHANGED << log, api, tokens >>
         [] found = "copy_error" ->
              /\ status' = Append(st, Published(ErrorState, "exception"))
              /\ exitCode' = RunErrorExit
              /\ PublishAndGo(1 + ErrorCalls, LeaveTry(1))
              /\ UNCHANGED << log, api, tokens >>
         [] OTHER ->
              /\ status' = st
              /\ \E t \in TokenEnvs : ReadTokens(t) /\ api' = [ tok |-> NextToken(t, 1) ]
              /\ PublishAndGo(1, "restore_post")
              /\ UNCHANGED << log, exitCode >>
  /\ UNCHANGED << listed, environ, pigz, tars, machine, capabilities, mode, cfg, secDir, workDir, hc, exc, slug, nested, pr,
                  archives, renv, selected >>

\* _restore_via_api: one turn of the token loop, or False after it; on
\* success restarting and restore_completed are published.
RestoreViaApi ==
  /\ pc = "restore_post"
  /\ IF api.tok = 3
     THEN /\ RestoreFailed(status, 0)
          /\ api' = NoApi
          /\ UNCHANGED log
     ELSE \E answer \in PostOutcomes :
          LET out == Outcome("restore_post", answer) IN
          /\ log' = Append(log, Entry("restore_post",
                                      IF out = "ok" THEN "ok" ELSE "fail",
                                      TokenName(api.tok)))
          /\ IF out = "ok"
             THEN /\ status' = status \o << Published("restarting", ""),
                                            Published("restore_completed", "") >>
                  /\ exitCode' = 0
                  /\ api' = NoApi
                  /\ PublishAndGo(2, LeaveTry(0))
             ELSE /\ api' = [ tok |-> NextToken(tokens, api.tok + 1) ]
                  /\ UNCHANGED << status, exitCode, pc, pub >>
  /\ UNCHANGED << listed, environ, pigz, tars, machine, capabilities, mode, cfg, tokens, secDir, workDir, hc, exc, slug, nested, pr,
                  archives, renv, selected >>

\* ----------------------------------------------------------------- finally
\* A faulty variant of CleanupTempFiles: a failure of rmtree is not caught
\* and ends the process with the exit status of a failed run.
CleanupTempFilesMutRaises ==
  /\ pc = "cleanup"
  /\ \E ok \in IF workDir THEN BOOLEAN ELSE {TRUE} :
       LET after == RemoveWorkDir(workDir, ok) IN
       /\ workDir' = after.exists
       /\ log' = Append(log, Entry("cleanup", after.res, ""))
       /\ exitCode' = IF after.res = "fail" THEN RunErrorExit ELSE exitCode
  /\ pc' = "exited"
  /\ UNCHANGED << listed, environ, pigz, tars, machine, capabilities, mode, cfg, tokens, secDir, status, hc, exc, api, slug,
                  nested, pr, archives, renv, selected, pub >>

\* _cleanup_temp_files: rmtree of the working directory if it exists; a
\* failure is logged and swallowed.  Then the process ends.
CleanupTempFiles ==
  /\ pc = "cleanup"
  /\ \E ok \in IF workDir THEN BOOLEAN ELSE {TRUE} :
       LET after == RemoveWorkDir(workDir, ok) IN
       /\ workDir' = after.exists
       /\ log' = Append(log, Entry("cleanup", after.res, ""))
  /\ pc' = "exited"
  /\ UNCHANGED << listed, environ, pigz, tars, machine, capabilities, mode, cfg, tokens, secDir, status, exitCode, hc, exc, api, slug,
                  nested, pr, archives, renv, selected, pub >>

\* _cleanup_temp_files applied a second time, to what the first application
\* left.
CleanupTempFilesAgain ==
  /\ pc = "exited"
  /\ \E ok \in IF workDir THEN BOOLEAN ELSE {TRUE} :
       LET after == RemoveWorkDir(workDir, ok) IN
       /\ workDir' = after.exists
       /\ log' = Append(log, Entry("cleanup", after.res, ""))
  /\ pc' = "exited_twice"
  /\ UNCHANGED << listed, environ, pigz, tars, machine, capabilities, mode, cfg, tokens, secDir, status, exitCode, hc, exc, api, slug,
                  nested, pr, archives, renv, selected, pub >>

Next ==
  \/ LoadConfig
  \/ PublishInitialStatus
  \/ PublishRestoreEntities
  \/ CtorListBackups
  \/ BeginRun
  \/ CheckRepoExists
  \/ InitializeNewRepo
  \/ HealthReturn
  \/ HealthRaise
  \/ RepairRepository
  \/ CreateHaBackup
  \/ CreateBackupViaApi
  \/ UnpackBackup
  \/ ProcessNestedArchive
  \/ CreateBorgBackup
  \/ CleanupOldBackups
  \/ CleanupGetBackups
  \/ CleanupDelete
  \/ PublishSuccess
  \/ ListAvailableBackups
  \/ SelectBackup
  \/ NoBackupSelected
  \/ ExtractFromBorg
  \/ RestoreToHa
  \/ RestoreViaApi
  \/ CleanupTempFiles

Spec == Init /\ [][Next]_vars

\* The process under the assumption that every step it can take is taken
\* in the end: every subprocess terminates and every request that is going
\* to be answered or to time out is.
SpecFair == Init /\ [][Next]_vars /\ WF_vars(Next)

\* The backup process alone, started in a fresh environment: a valid
\* configuration with a passphrase and no security directory.  Every step
\* of the process is a blocking call that returns, hence the fairness.
InitScenarioA ==
  /\ Init
  /\ mode = "backup"
  /\ ValidationError(cfg) = None
  /\ Truthy(cfg.passphrase)
  /\ ~secDir

NextBackup ==
  \/ LoadConfig
  \/ PublishInitialStatus
  \/ BeginRun
  \/ CheckRepoExists
  \/ InitializeNewRepo
  \/ HealthReturn
  \/ HealthRaise
  \/ RepairRepository
  \/ CreateHaBackup
  \/ CreateBackupViaApi
  \/ UnpackBackup
  \/ ProcessNestedArchive
  \/ CreateBorgBackup
  \/ CleanupOldBackups
  \/ CleanupGetBackups
  \/ CleanupDelete
  \/ PublishSuccess
  \/ CleanupTempFiles

SpecScenarioA == InitScenarioA /\ [][NextBackup]_vars /\ WF_vars(NextBackup)

\* The backup process alone, over every configuration and environment: what
\* backup.py's main() runs.
InitBackup ==
  /\ Init
  /\ mode = "backup"

SpecBackup == InitBackup /\ [][NextBackup]_vars

\* The restore process alone, over every configuration and environment: what
\* restore.py's main() runs.
InitRestore ==
  /\ Init
  /\ mode = "restore"

NextRestore ==
  \/ LoadConfig
  \/ PublishRestoreEntities
  \/ CtorListBackups
  \/ BeginRun
  \/ CheckRepoExists
  \/ InitializeNewRepo
  \/ HealthReturn
  \/ HealthRaise
  \/ RepairRepository
  \/ ListAvailableBackups
  \/ SelectBackup
  \/ NoBackupSelected
  \/ ExtractFromBorg
  \/ RestoreToHa
  \/ RestoreViaApi
  \/ CleanupTempFiles

SpecRestore == InitRestore /\ [][NextRestore]_vars

\* The selection alone: a restore process whose health checks found the
\* repository ready and whose listing, of up to MaxListing archives, has just
\* been sorted newest first.
InitSelect ==
  /\ mode = "restore"
  /\ cfg \in { Normalize(c) : c \in { o \in RunOptions :
                   /\ ValidationError(o) = None
                   /\ o.keep_snapshots = MinKeep
                   /\ o.passphrase = "s3cret"
                   /\ o.repo_url = "backup@nas:ha" } }
  /\ tokens = [ read |-> FALSE, sup |-> FALSE, hassio |-> FALSE ]
  /\ secDir = TRUE
  /\ workDir = TRUE
  /\ pc = "select"
  /\ status = << Published("restore_mode", ""), Published("restoring", ""),
                 Published("listing_backups", "") >>
  /\ log = << Entry("info", "ok", "ctor"), Entry("borg_list", "any", "ctor"),
              Entry("info", "ok", "main"), Entry("borg_list", "ok", "") >>
  /\ exitCode = -1
  /\ hc = NoHc
  /\ exc = NoExc
  /\ api = NoApi
  /\ slug = None
  /\ nested = NoNested
  /\ pr = NoPr
  /\ listed \in ArchiveListingsUpTo(MaxListing) \ { <<>> }
  /\ archives = SortByTimeDesc(listed)
  /\ renv = NoEnv
  /\ selected = None
  /\ pub = [ calls |-> 1, rets |-> { {TRUE}, {FALSE} }, fork |-> {"select"} ]
  /\ machine \in RunMachines
  /\ capabilities \in { DetectSystemCapabilities(m) : m \in RunMachines }
  /\ environ = SetupEnvironment(CleanEnviron, cfg)
  /\ pigz = TRUE
  /\ tars = <<>>

NextSelect ==
  \/ SelectBackup
  \/ NoBackupSelected
  \/ ExtractFromBorg

SpecSelect == InitSelect /\ [][NextSelect]_vars

\* The construction alone, BorgCommon.__init__, applied to every
\* configuration of ConfigOptions.
InitConfig ==
  /\ mode \in {"backup", "restore"}
  /\ cfg \in ConfigOptions
  /\ tokens = [ read |-> FALSE, sup |-> FALSE, hassio |-> FALSE ]
  /\ secDir = FALSE
  /\ workDir = FALSE
  /\ pc = "load_config"
  /\ status = <<>>
  /\ log = <<>>
  /\ exitCode = -1
  /\ hc = NoHc
  /\ exc = NoExc
  /\ api = NoApi
  /\ slug = None
  /\ nested = NoNested
  /\ pr = NoPr
  /\ archives = <<>>
  /\ renv = NoEnv
  /\ selected = None
  /\ pub = [ calls |-> 0, rets |-> {}, fork |-> {} ]
  /\ machine \in RunMachines
  /\ capabilities = NoCaps
  /\ listed = <<>>
  /\ environ = CleanEnviron
  /\ pigz = TRUE
  /\ tars = <<>>

NextConstruct == LoadConfig

SpecConfig == InitConfig /\ [][NextConstruct]_vars

\* The construction alone, applied to a configuration that passes and to
\* every machine of Machines.
InitCaps ==
  /\ mode \in {"backup", "restore"}
  /\ cfg \in { o \in RunOptions : ValidationError(o) = None /\ o.keep_snapshots = MinKeep }
  /\ tokens = [ read |-> FALSE, sup |-> FALSE, hassio |-> FALSE ]
  /\ secDir = FALSE
  /\ workDir = FALSE
  /\ pc = "load_config"
  /\ status = <<>>
  /\ log = <<>>
  /\ exitCode = -1
  /\ hc = NoHc
  /\ exc = NoExc
  /\ api = NoApi
  /\ slug = None
  /\ nested = NoNested
  /\ pr = NoPr
  /\ archives = <<>>
  /\ renv = NoEnv
  /\ selected = None
  /\ pub = [ calls |-> 0, rets |-> {}, fork |-> {} ]
  /\ machine \in Machines
  /\ capabilities = NoCaps
  /\ listed = <<>>
  /\ environ = CleanEnviron
  /\ pigz = TRUE
  /\ tars = <<>>

SpecCaps == InitCaps /\ [][NextConstruct]_vars

\* The unpacking alone, on every machine of Machines, with and without pigz
\* installed: create_backup has received the slug of the new snapshot and
\* is about to publish unpacking.
InitUnpack ==
  /\ mode = "backup"
  /\ cfg \in { Normalize(c) : c \in { o \in RunOptions :
                   /\ ValidationError(o) = None
                   /\ o.keep_snapshots = MinKeep
                   /\ o.passphrase = "s3cret"
                   /\ o.repo_url = "backup@nas:ha" } }
  /\ tokens = [ read |-> TRUE, sup |-> TRUE, hassio |-> FALSE ]
  /\ secDir = TRUE
  /\ workDir = TRUE
  /\ pc = "unpack"
  /\ status = << Published("idle", ""), Published("running", ""),
                 Published("creating_ha_backup", "") >>
  /\ log = << Entry("info", "ok", "main"),
              Entry("snapshot_post", "ok", TokenName(1)) >>
  /\ exitCode = -1
  /\ hc = NoHc
  /\ exc = NoExc
  /\ api = NoApi
  /\ slug = "snap"
  /\ nested = NoNested
  /\ pr = NoPr
  /\ archives = <<>>
  /\ renv = NoEnv
  /\ selected = None
  /\ pub = [ calls |-> 1, rets |-> { {TRUE}, {FALSE} }, fork |-> {"snapshot_post"} ]
  /\ machine \in Machines
  /\ capabilities = DetectSystemCapabilities(machine)
  /\ listed = <<>>
  /\ environ = SetupEnvironment(CleanEnviron, cfg)
  /\ pigz \in BOOLEAN
  /\ tars = <<>>

NextUnpack ==
  \/ UnpackBackup
  \/ ProcessNestedArchive
  \/ CreateBorgBackup
  \/ CleanupTempFiles

SpecUnpack == InitUnpack /\ [][NextUnpack]_vars

\* _cleanup_temp_files alone, applied once and then again, at the end of a
\* run that completed or failed, with the working directory there or not.
InitCleanup ==
  /\ mode \in {"backup", "restore"}
  /\ cfg \in { Normalize(c) : c \in { o \in RunOptions : ValidationError(o) = None } }
  /\ tokens = [ read |-> TRUE, sup |-> TRUE, hassio |-> FALSE ]
  /\ secDir \in BOOLEAN
  /\ workDir \in BOOLEAN
  /\ pc = "cleanup"
  /\ exitCode \in {0, RunErrorExit}
  /\ status = IF mode = "backup"
              THEN << Published("idle", ""), Published("running", ""),
                      IF exitCode = 0 THEN Published("completed", "")
                      ELSE Published("error", "auth") >>
              ELSE << Published("restore_mode", ""), Published("restoring", ""),
                      IF exitCode = 0 THEN Published("restore_completed", "")
                      ELSE Published("restore_error", "auth") >>
  /\ log = << Entry("info", IF exitCode = 0 THEN "ok" ELSE "auth", "main") >>
  /\ hc = NoHc
  /\ exc = NoExc
  /\ api = NoApi
  /\ slug = None
  /\ nested = NoNested
  /\ pr = NoPr
  /\ archives = <<>>
  /\ renv = NoEnv
  /\ selected = None
  /\ pub = [ calls |-> 1, rets |-> { {TRUE}, {FALSE} }, fork |-> {"cleanup"} ]
  /\ machine \in RunMachines
  /\ capabilities = DetectSystemCapabilities(machine)
  /\ listed = <<>>
  /\ environ = SetupEnvironment(CleanEnviron, cfg)
  /\ pigz = TRUE
  /\ tars = <<>>

NextCleanup ==
  \/ CleanupTempFiles
  \/ CleanupTempFilesAgain

SpecCleanup == InitCleanup /\ [][NextCleanup]_vars

\* ================================================================ properties
\* The positions of the command log that hold command cmd, and their number.
LogIdx(cmd) == { i \in DOMAIN log : log[i].cmd = cmd }
Count(cmd) == Cardinality(LogIdx(cmd))

\* The states published so far, and the last of them.
PublishedStates == { status[i].state : i \in DOMAIN status }
LastState == IF status = <<>> THEN None ELSE status[Len(status)].state

\* create_backup or restore_backup was entered.
RunEntered == "running" \in PublishedStates \/ "restoring" \in PublishedStates

\* The commands that change the repository, the platform or the working copy.
StageCommands == {"init", "check_repair", "snapshot_post", "create", "extract"}

\* The answer of `borg info` the health check in progress is acting on.
ProbeFailed == hc.probe.rc > 0
ProbeMissing == ProbeFailed /\ ~hc.probe.auth /\ (hc.probe.missing \/ hc.probe.rc = 2)
ProbeCorrupt == ProbeFailed /\ ~hc.probe.auth /\ hc.probe.integrity
ProbeUnknown ==
  /\ ProbeFailed /\ hc.probe.rc # 2
  /\ ~hc.probe.auth /\ ~hc.probe.missing /\ ~hc.probe.integrity

C3_CleanupExactlyOnce ==
  /\ Count("cleanup") <= 1
  /\ pc = "exited" /\ RunEntered => Count("cleanup") = 1
  /\ Count("cleanup") = 1 => pc = "exited" /\ log[Len(log)].cmd = "cleanup"

\* C3 witness: a run that left through sys.exit(1) has ended, the removal done.
C3_Witness ==
  /\ pc = "exited"
  /\ RunEntered
  /\ exitCode = 1
  /\ LastState = ErrorState
  /\ Count("cleanup") = 1

\* C4 as stated: a process that has ended after a failure published an
\* error state and has a non-zero exit status; the exit status is 0 only if
\* the last published state is the completed state.
C4_ExitZeroOnlyIfCompleted ==
  pc = "exited" /\ RunEntered =>
    /\ exitCode = 0 => LastState \in {"completed", "restore_completed"}
    /\ LastState = ErrorState => exitCode # 0

\* C5 as stated: a health check of a run whose probe failed with an integrity
\* signal and no authentication signal returns only after `repairing` was
\* published and borg check --repair was issued.
C5_CorruptProbeRepairs ==
  pc = "hc_return" /\ hc.ctx = "main" /\ ProbeCorrupt =>
    "repairing" \in PublishedStates /\ Count("check_repair") > 0

\* C6: in one process borg check --repair is issued at most once, and the
\* probe that follows a repair is issued at most once.
C6_RepairAtMostOnce ==
  /\ Count("check_repair") <= 1
  /\ Cardinality({ i \in LogIdx("info") : log[i].arg = "repair" }) <= 1

\* C6 witness: a restore process that repaired, probed again and has ended.
C6_Witness ==
  /\ pc = "exited"
  /\ mode = "restore"
  /\ Count("check_repair") = 1
  /\ \E i \in LogIdx("info") : log[i].arg = "repair"

\* C7 as stated: a health check of a run whose probe indicated a missing
\* repository returns only after a borg init that succeeded.
C7_MissingRepoIsInitialized ==
  pc = "hc_return" /\ hc.ctx = "main" /\ ProbeMissing => hc.init = "ok"

\* C8 as stated: a health check of a run whose probe failed with none of the
\* authentication, missing-repository and corruption signals returns only
\* after a borg init was attempted.
C8_UnknownErrorIsInitialized ==
  pc = "hc_return" /\ hc.ctx = "main" /\ ProbeUnknown => hc.init \in {"ok", "fail"}

\* C9: a health check whose probe succeeded returns at once, with no borg
\* init attempted or skipped; and in a process all of whose probes succeeded
\* (the two health checks in a row of a restore process among them) no borg
\* init and no borg check --repair is issued at all.
C9_ReadyRepoIsLeftAlone ==
  /\ hc.probe.rc = 0 => pc = "hc_return" /\ hc.init = "none"
  /\ (\A i \in LogIdx("info") : log[i].res = "ok")
       => Count("init") = 0 /\ Count("check_repair") = 0

\* C9 witness: a restore process whose two health checks both found the
\* repository ready has listed the archives.
C9_Witness ==
  /\ mode = "restore"
  /\ Cardinality({ i \in LogIdx("info") : log[i].res = "ok" }) = 2
  /\ Count("info") = 2
  /\ ~secDir
  /\ pc = "select"

\* C10: every borg init issued uses repokey-blake2 if the configured
\* passphrase is a non-empty string and none otherwise; and a process that
\* ended at the configuration was not stopped by its passphrase: the same
\* options with a passphrase are rejected too.
C10_EncryptionIffPassphrase ==
  /\ \A i \in LogIdx("init") :
       /\ log[i].arg \in {"repokey-blake2", "none"}
       /\ log[i].arg = "repokey-blake2" <=> cfg.passphrase \notin {None, ""}
  /\ pc = "exited" /\ ~RunEntered =>
       ValidationError([ cfg EXCEPT !.passphrase = "s3cret" ]) # None

\* C10 witness: a backup run with an empty passphrase initialised the
\* repository unencrypted and completed.
C10_Witness ==
  /\ cfg.passphrase = ""
  /\ \E i \in LogIdx("init") : log[i].arg = "none" /\ log[i].res = "ok"
  /\ LastState = "completed"
  /\ exitCode = 0

\* The states published so far, in order, and the same without a final
\* error state.
StateSeq == [ i \in DOMAIN status |-> status[i].state ]
StagesPublished ==
  IF status # <<>> /\ LastState = ErrorState
  THEN SubSeq(StateSeq, 1, Len(status) - 1) ELSE StateSeq

\* The commands issued so far all succeeded.
AllOk(cmd) == \A i \in LogIdx(cmd) : log[i].res = "ok"
SomeOk(cmd) == \E i \in LogIdx(cmd) : log[i].res = "ok"

\* The place of each state of order in it.
RankIn(order) ==
  [ x \in { order[r] : r \in DOMAIN order } |-> CHOOSE r \in DOMAIN order : order[r] = x ]

\* s follows order, whose ranks are rank: it starts with the first state of
\* order and every next state is the successor in order of the one before,
\* where the state `opt` may be left out.
Follows(s, order, rank, opt) ==
  /\ \A i \in 1..Len(s) : s[i] \in DOMAIN rank
  /\ Len(s) > 0 => s[1] = order[1]
  /\ \A i \in 2..Len(s) :
       LET a == rank[s[i - 1]]
           b == rank[s[i]]
       IN b = a + 1 \/ (b = a + 2 /\ order[a + 1] = opt)

BackupOrder ==
  << "idle", "running", "repairing", "creating_ha_backup", "unpacking",
     "creating_borg_backup", "cleaning_up", "completed" >>
BackupRank == RankIn(BackupOrder)

\* C11: in a backup process the published states, a final error state set
\* aside, are a prefix of idle, running, [repairing], creating_ha_backup,
\* unpacking, creating_borg_backup, cleaning_up, completed, in this order and
\* each at most once; and completed is published only after a snapshot
\* creation, the top-level and every nested extraction, borg create and the
\* listing fetch of the pruning step succeeded.
C11_BackupStatusOrder ==
  mode = "backup" =>
    /\ LET s == StagesPublished IN Follows(s, BackupOrder, BackupRank, "repairing")
    /\ "completed" \in PublishedStates =>
         /\ LastState = "completed"
         /\ SomeOk("snapshot_post")
         /\ SomeOk("tar") /\ AllOk("tar") /\ AllOk("tar_nested")
         /\ SomeOk("create") /\ AllOk("create")
         /\ SomeOk("get_backups")

\* C11 witness: a backup run that repaired the repository has completed.
C11_Witness ==
  /\ mode = "backup"
  /\ pc = "exited"
  /\ "repairing" \in PublishedStates
  /\ LastState = "completed"
  /\ Len(status) = 8

\* The states a restore run publishes, as the claim lists them and as the
\* code publishes them: the constructor publishes restore_mode first, and
\* _restore_via_api publishes restarting before it returns True.
RestoreOrderStated ==
  << "restoring", "repairing", "listing_backups", "extracting",
     "restoring_to_ha", "restore_completed" >>
RestoreOrder ==
  << "restore_mode", "restoring", "repairing", "listing_backups", "extracting",
     "restoring_to_ha", "restarting", "restore_completed" >>
RestoreRankStated == RankIn(RestoreOrderStated)
RestoreRank == RankIn(RestoreOrder)

\* C12 as stated: in a restore process the states published from restoring
\* on, a final error state set aside, follow restoring, [repairing],
\* listing_backups, extracting, restoring_to_ha, restore_completed.
C12_RestoreStatusOrderStated ==
  mode = "restore" =>
    LET s == SubSeq(StagesPublished, 2, Len(StagesPublished))
    IN Follows(s, RestoreOrderStated, RestoreRankStated, "repairing")

\* C12 amended: in a restore process the published states, a final error
\* state set aside, are a prefix of restore_mode, restoring, [repairing],
\* listing_backups, extracting, restoring_to_ha, restarting,
\* restore_completed; and restore_completed is published only after the
\* listing in restore_backup answered a non-empty list, an archive of that
\* list was selected, borg extract succeeded and the restore call succeeded.
C12_RestoreStatusOrder ==
  mode = "restore" =>
    /\ LET s == StagesPublished IN Follows(s, RestoreOrder, RestoreRank, "repairing")
    /\ "restore_completed" \in PublishedStates =>
         /\ LastState = "restore_completed"
         /\ \E i \in LogIdx("borg_list") : log[i].res = "ok" /\ log[i].arg = ""
         /\ archives # <<>>
         /\ \E i \in 1..Len(archives) : archives[i].name = selected
         /\ SomeOk("extract") /\ AllOk("extract")
         /\ SomeOk("restore_post")

\* C12 witness: a restore run that repaired the repository has completed.
C12_Witness ==
  /\ mode = "restore"
  /\ pc = "exited"
  /\ "repairing" \in PublishedStates
  /\ LastState = "restore_completed"
  /\ Len(status) = 8

\* Scenario A so far: the probe in progress answered that the repository
\* does not exist, every command issued succeeded (the probe, first in the
\* log, failed as said), no DELETE was refused and none raised (a DELETE
\* that raises sends the token loop back to the listing fetch), and no
\* platform call ran out of tokens.
ScenarioACallsSucceed ==
  /\ hc.probe # NoProbe =>
       hc.probe = [ rc |-> 2, auth |-> FALSE, missing |-> TRUE, integrity |-> FALSE ]
  /\ \A i \in DOMAIN log :
       IF log[i].cmd = "info" THEN i = 1 /\ log[i].res = "fail"
       ELSE log[i].res \in {"ok", "any", "sent"}
  /\ pr.response # 500
  /\ pc = "prune_get" => Count("delete") = 0
  /\ api.tok # 3

\* Scenario A has ended as the claim says: one probe, then one borg init
\* with repokey-blake2, no repair, every stage passed, completed published
\* last and exit status 0.
ScenarioACompleted ==
  /\ pc = "exited"
  /\ Len(log) >= 2
  /\ log[1] = Entry("info", "fail", "main")
  /\ log[2] = Entry("init", "ok", "repokey-blake2")
  /\ Count("info") = 1 /\ Count("init") = 1 /\ Count("check_repair") = 0
  /\ SomeOk("snapshot_post") /\ SomeOk("tar") /\ SomeOk("create")
  /\ SomeOk("get_backups")
  /\ StagesPublished =
       << "idle", "running", "creating_ha_backup", "unpacking",
          "creating_borg_backup", "cleaning_up", "completed" >>
  /\ LastState = "completed"
  /\ exitCode = 0

\* C13: from a fresh environment with a passphrase and no repository, if
\* every external call succeeds the run ends completed, with exit status 0,
\* after Probe, Initialize(encrypted) and every stage.
C13_ScenarioA == ([]ScenarioACallsSucceed) => <>ScenarioACompleted

\* C13 witness: scenario A has ended completed, with HASSIO_TOKEN alone and
\* two snapshots pruned.
C13_Witness ==
  /\ ScenarioACallsSucceed
  /\ ScenarioACompleted
  /\ tokens.hassio /\ ~tokens.sup
  /\ Count("delete") = 2

\* The stage of a backup run a command belongs to (0: no stage).
StageOf(cmd) ==
  CASE cmd = "snapshot_post" -> 1
    [] cmd \in {"tar", "tar_nested"} -> 2
    [] cmd = "create" -> 3
    [] cmd \in {"get_backups", "delete"} -> 4
    [] OTHER -> 0

\* Some command cmd before position i of the log succeeded, and none failed.
OkBefore(cmd, i) == \E j \in 1..(i - 1) : log[j].cmd = cmd /\ log[j].res = "ok"
NoneFailedBefore(cmd, i) ==
  \A j \in 1..(i - 1) : log[j].cmd = cmd => log[j].res = "ok"

\* C14: in a backup process every extraction is issued after a snapshot
\* creation call that succeeded; borg create is issued after the top-level
\* extraction succeeded and no nested extraction failed, all nested archives
\* found being extracted; the listing fetches and the DELETEs are issued after
\* a borg create that succeeded; and the stages do not overlap: once a
\* command of a stage is issued no command of an earlier stage follows.
\* The log only grows, so it is enough that each of these holds of the last
\* command of the log in every state.
C14_StagesInOrder ==
  mode = "backup" /\ log # <<>> =>
    LET i == Len(log)
        stage == StageOf(log[i].cmd)
    IN /\ stage = 2 => OkBefore("snapshot_post", i)
       /\ log[i].cmd = "tar_nested" => OkBefore("tar", i)
       /\ stage = 3 =>
            /\ OkBefore("tar", i)
            /\ NoneFailedBefore("tar", i) /\ NoneFailedBefore("tar_nested", i)
       /\ stage = 4 => OkBefore("create", i) /\ NoneFailedBefore("create", i)
       /\ stage > 0 => \A j \in 1..(i - 1) : StageOf(log[j].cmd) <= stage
       /\ pc = "nested" /\ nested.extracted = nested.found =>
            Cardinality({ k \in LogIdx("tar_nested") : log[k].res = "ok" }) = nested.found
       /\ log[i].cmd \in {"tar", "create"} => Count(log[i].cmd) = 1

\* C14 witness: a backup run passed all four stages, a nested archive
\* extracted and a snapshot deleted.
C14_Witness ==
  /\ mode = "backup"
  /\ pc = "exited"
  /\ LastState = "completed"
  /\ SomeOk("tar_nested")
  /\ Count("delete") > 0

\* C15 as stated: a backup process that issued a DELETE goes on with the
\* removal loop whatever came of that DELETE, and when it has ended the last
\* published state is completed and the exit status is 0.
C15_DeleteFailureIsNotFatal ==
  mode = "backup" /\ Count("delete") > 0 =>
    /\ pc \in {"prune_delete", "cleanup", "exited"}
    /\ pc \in {"cleanup", "exited"} => LastState = "completed" /\ exitCode = 0

\* The number of platform tokens set in the environment.
TokensSet == (IF tokens.sup THEN 1 ELSE 0) + (IF tokens.hassio THEN 1 ELSE 0)

\* The pruning step of a backup process is over and no listing fetch
\* succeeded.
ListFetchFailed ==
  /\ mode = "backup"
  /\ SomeOk("create")
  /\ ~SomeOk("get_backups")
  /\ pc \in {"cleanup", "exited"}

\* C16: when the pruning step of a backup process is over and no listing
\* fetch succeeded, every token set was tried once for the listing, no
\* DELETE was issued, the last published state is the error state, for the
\* pruning step, the exit status is 1, and after borg create succeeded the
\* only commands issued are the listing fetches and the removal of the
\* working directory: nothing removes the archive.
C16_ListFetchFailure ==
  ListFetchFailed =>
    /\ Count("get_backups") = TokensSet
    /\ Count("delete") = 0
    /\ status[Len(status)] = Published("error", "prune")
    /\ exitCode = 1
    /\ \A i \in LogIdx("create") : \A j \in (i + 1)..Len(log) :
         log[j].cmd \in {"get_backups", "cleanup"}

\* C16 witness: a backup run has ended after both tokens failed to fetch the
\* listing.
C16_Witness ==
  /\ ListFetchFailed
  /\ pc = "exited"
  /\ Count("get_backups") = 2

\* The requests of one platform call, by the log: SUPERVISOR_TOKEN before
\* HASSIO_TOKEN, each token at most once, and no request after one that
\* succeeded.
TokenOrder(cmd) ==
  \A i, j \in LogIdx(cmd) :
    i < j => /\ log[i].arg = "SUPERVISOR_TOKEN"
             /\ log[j].arg = "HASSIO_TOKEN"
             /\ log[i].res # "ok"

\* C17 as stated: for snapshot creation, the listing fetch of the pruning
\* step and the platform restore, the tokens are tried in the order
\* SUPERVISOR_TOKEN, HASSIO_TOKEN, each at most once, the second only if the
\* first did not succeed; the call is taken as succeeded only on an answer
\* that is HTTP 200 with result "ok"; and a call no token succeeded for is
\* followed by the error state and never by the completed state.
C17_DualCredentialRetry ==
  /\ TokenOrder("snapshot_post")
  /\ TokenOrder("get_backups")
  /\ TokenOrder("restore_post")
  /\ pc = "unpack" => log[Len(log)] \in { Entry("snapshot_post", "ok", TokenName(i)) : i \in 1..2 }
  /\ pc = "prune_delete" => pr.result = "ok"
  /\ \A cmd \in {"snapshot_post", "get_backups", "restore_post"} :
       Count(cmd) > 0 /\ ~SomeOk(cmd) /\ pc \in {"cleanup", "exited"} =>
         /\ LastState = ErrorState
         /\ PublishedStates \cap {"completed", "restore_completed"} = {}

ByName(name) ==
  IF \E i \in 1..Len(archives) : archives[i].name = name THEN name ELSE None
ByIndex(i) ==
  IF 1 <= i /\ i <= Len(archives) THEN archives[i].name ELSE None
Newest == IF archives = <<>> THEN None ELSE archives[1].name
Resolution ==
  IF renv.name \notin {None, ""} THEN "name"
  ELSE IF renv.index.kind \in {"text", "int"} THEN "index"
  ELSE "newest"

\* The last publication is the error of the no-selection exit.
SelectionFailed ==
  status # <<>> /\ status[Len(status)] = Published("restore_error", "no_selection")

\* C19: when BACKUP_NAME is set the selection returns that name if it is in
\* the listing and nothing otherwise, whatever BACKUP_INDEX holds and whatever
\* the newest archive is; every selection is the result of exactly one of the
\* three resolutions, name before index before newest; and a run whose
\* selection returned nothing publishes the error state and leaves with exit
\* status 1, no borg extract issued.
C19_SelectionByName ==
  /\ pc = "select_return" /\ Resolution = "name" =>
       /\ selected = ByName(renv.name)
       /\ \A idx \in BackupIndexes(Len(archives)) :
            SelectBackupToRestore(archives, renv.name, idx) = selected
  /\ pc = "select_return" =>
       selected = CASE Resolution = "name" -> ByName(renv.name)
                    [] Resolution = "index" ->
                         IF renv.index.kind = "int" THEN ByIndex(renv.index.val) ELSE None
                    [] OTHER -> Newest
  /\ selected = None /\ pc \in {"cleanup", "exited"} /\ archives # <<>> => SelectionFailed
  /\ SelectionFailed =>
       /\ selected = None
       /\ pc \in {"cleanup", "exited"}
       /\ exitCode = 1
       /\ Count("extract") = 0 /\ Count("restore_post") = 0

\* C19 witness: BACKUP_NAME names the older of two archives and BACKUP_INDEX
\* the newer: the named archive is selected.
C19_Witness ==
  /\ pc = "select_return"
  /\ renv.name = "a1"
  /\ renv.index = [ kind |-> "int", val |-> 1 ]
  /\ Len(archives) = 2
  /\ archives[2].name = "a1"
  /\ selected = "a1"

\* C20: when BACKUP_NAME is not set and BACKUP_INDEX holds the number i, the
\* selection returns the i-th archive of the newest-first listing, counted
\* from 1, for 1 <= i <= count, and nothing for i = 0, i < 0 and i > count;
\* and a run whose selection returned nothing aborts.
C20_SelectionByIndex ==
  /\ pc = "select_return" /\ Resolution = "index" /\ renv.index.kind = "int" =>
       LET i == renv.index.val
           n == Len(archives)
       IN /\ \A k \in 1..n : archives[k].raw_time >= archives[Min(k + 1, n)].raw_time
          /\ 1 <= i /\ i <= n => selected = archives[i].name
          /\ i <= 0 \/ i > n => selected = None
  /\ selected = None /\ archives # <<>> /\ pc \notin {"select", "select_return"}
       => SelectionFailed /\ Count("extract") = 0

\* C20 witness: index 2 against a listing of five archives selects the
\* second newest.
C20_Witness ==
  /\ pc = "select_return"
  /\ renv.name = None
  /\ renv.index = [ kind |-> "int", val |-> 2 ]
  /\ Len(archives) = 5
  /\ archives[1].raw_time > archives[2].raw_time
  /\ selected = archives[2].name
  /\ selected # archives[1].name

\* The members of a listing.
Members(l) == { l[i] : i \in DOMAIN l }

\* C21: when neither BACKUP_NAME nor BACKUP_INDEX is set and the listing is
\* not empty, the selection returns the first archive of the listing, the
\* listing holds exactly the archives borg list reported, and none of them is
\* younger than the first.
C21_DefaultIsNewest ==
  pc = "select_return" /\ Resolution = "newest" /\ archives # <<>> =>
    /\ selected = archives[1].name
    /\ \A i \in DOMAIN archives : archives[i].raw_time <= archives[1].raw_time
    /\ \E reported \in ArchiveListingsUpTo(Len(archives)) :
         /\ archives = SortByTimeDesc(reported)
         /\ Members(reported) = Members(archives)
         /\ \A a \in Members(reported) : a.raw_time <= archives[1].raw_time

\* C21 witness: borg list reported the older archive first; with no name
\* and no index the younger one, first of the sorted listing, is selected.
C21_Witness ==
  /\ pc = "select_return"
  /\ renv.name = None
  /\ renv.index.kind = "unset"
  /\ Len(archives) = 2
  /\ archives[1].name = "a2" /\ archives[2].name = "a1"
  /\ archives[1].raw_time > archives[2].raw_time
  /\ selected = "a2"

\* C22: _validate_config ends the process exactly when the options hold
\* both a repository URL and a host, or neither, or a host and no repository
\* name (an option that is absent, null or empty is not supplied); whatever
\* the compression, the retention count and the passphrase are, they do not
\* change that outcome.
C22_ValidationOutcome ==
  [][ LoadConfig =>
        LET url == Truthy(cfg.repo_url)
            host == Truthy(cfg.host)
            name == Truthy(cfg.reponame)
            fatal == pc' = "exited"
        IN /\ fatal <=> ((url /\ host) \/ (~url /\ ~host) \/ (host /\ ~name))
           /\ fatal => exitCode' = ConfigErrorExit
           /\ ~fatal => pc' = "constructed" /\ exitCode' = -1
           /\ \A o \in ConfigOptions :
                o.repo_url = cfg.repo_url /\ o.host = cfg.host /\ o.user = cfg.user
                  /\ o.reponame = cfg.reponame
                => (ValidationError(o) # None <=> fatal) ]_vars

\* C22 witness: a host without a repository name, next to an unknown
\* compression, a retention count below 1 and no passphrase, ended the
\* process.
C22_Witness ==
  /\ pc = "exited"
  /\ exitCode = ConfigErrorExit
  /\ Truthy(cfg.host) /\ ~Truthy(cfg.reponame) /\ ~Truthy(cfg.repo_url)
  /\ cfg.compression = "gzip" /\ cfg.keep_snapshots < MinKeep /\ cfg.passphrase = None

\* A process that _load_config ended: the options did not pass
\* _validate_config (which leaves the configuration object as it was read).
ConfigFatal == pc = "exited" /\ ValidationError(cfg) # None

\* C23: a process ended by a configuration error leaves with a status that
\* is neither 0 nor the status of the repository-fatal and generic failures
\* of a run, and has by then issued no command, created no directory (the
\* step that sets the environment variables creates them), read no token,
\* detected no capabilities and made no publication.
C23_ConfigErrorStopsEarly ==
  ConfigFatal =>
    /\ exitCode # 0
    /\ exitCode # RunErrorExit
    /\ log = <<>>
    /\ ~workDir
    /\ ~tokens.read
    /\ capabilities = NoCaps
    /\ status = <<>> /\ pub.calls = 0

\* C24: a configuration that passed _validate_config has a repository URL
\* that is not empty and is the explicit URL when no host was supplied and
\* [user@]host:reponame otherwise, with the user@ prefix exactly when a user
\* is configured; a retention count of at least 1; and a compression among
\* none, lz4, zstd, zlib and lzma, whatever the compression option held.
C24_NormalizedConfig ==
  [][ LoadConfig /\ pc' = "constructed" =>
        /\ Truthy(cfg'.repo_url)
        /\ ~Truthy(cfg.host) => cfg'.repo_url = cfg.repo_url
        /\ Truthy(cfg.host) =>
             cfg'.repo_url = IF Truthy(cfg.user)
                             THEN cfg.user \o "@" \o cfg.host \o ":" \o cfg.reponame
                             ELSE cfg.host \o ":" \o cfg.reponame
        /\ cfg'.keep_snapshots >= MinKeep
        /\ cfg'.compression \in ValidCompressions ]_vars

\* C25: for every core count, available memory and storage classification,
\* use_parallel is true exactly when there is more than one core, more than
\* 1024 MB (whole megabytes of the bytes reported) and the storage is not
\* slow; the thread count is cores - 1 when use_parallel is true and 1
\* otherwise, hence at least 1.
C25_CapabilityDerivation ==
  pc = "constructed" =>
    LET c == capabilities
        cores == machine.cpu_count
        mb == machine.available \div MiB
    IN /\ c.cpu_cores = cores
       /\ c.available_memory_mb = mb
       /\ c.available_memory_mb * MiB <= machine.available
       /\ machine.available < (c.available_memory_mb + 1) * MiB
       /\ c.use_parallel <=> (cores > 1 /\ mb > 1024 /\ ~c.is_slow_storage)
       /\ c.compression_threads = IF c.use_parallel THEN cores - 1 ELSE 1
       /\ c.compression_threads >= 1

\* C25 witness: three cores, 1025 MB and storage that is not rotational give
\* use_parallel and two threads.
C25_Witness ==
  /\ pc = "constructed"
  /\ machine = [ cpu_count |-> 3, available |-> 1025 * MiB, rotational |-> "0" ]
  /\ capabilities.use_parallel
  /\ capabilities.compression_threads = 2

\* C26: when the rotational flag of the storage cannot be read, the storage
\* counts as slow and use_parallel is false, whatever the cores and the
\* memory are.
C26_ConservativeStorageDefault ==
  pc = "constructed" /\ machine.rotational = "raises" =>
    /\ capabilities.is_slow_storage
    /\ ~capabilities.use_parallel
    /\ capabilities.compression_threads = 1

\* C26 witness: three cores and 2000 MB, the rotational flag unreadable:
\* use_parallel is false.
C26_Witness ==
  /\ pc = "constructed"
  /\ machine = [ cpu_count |-> 3, available |-> 2000 * MiB, rotational |-> "raises" ]
  /\ capabilities.is_slow_storage
  /\ ~capabilities.use_parallel

\* The extractions of the unpacker that failed: positions of the log.
FailedExtractions ==
  { i \in DOMAIN log : log[i].cmd \in {"tar", "tar_nested"} /\ log[i].res = "fail" }

C28_FatalIsPublished ==
  pc = "exited" /\ exitCode # 0 =>
    \E i \in DOMAIN status : status[i].state = ErrorState /\ status[i].reason # ""

\* The commands that move data or read the repository.
DataCommands == {"snapshot_post", "borg_list", "create", "extract", "restore_post"}

\* The repository was found or made ready before position i of the log:
\* a borg info or a borg init that succeeded.
ReadyBefore(i) ==
  \E j \in 1..(i - 1) : log[j].cmd \in {"info", "init"} /\ log[j].res = "ok"

\* C29: the health check runs once in a process, its probe a second time
\* only after a repair that succeeded, and no snapshot creation, archive
\* listing, archive creation, extraction or platform restore is issued before
\* the check has found or made the repository ready.
C29_HealthCheckOnceAndFirst ==
  /\ Count("info") <= 1 + Cardinality({ i \in LogIdx("check_repair") : log[i].res = "ok" })
  /\ Count("info") <= 2
  /\ \A i \in DOMAIN log : log[i].cmd \in DataCommands => ReadyBefore(i)

\* C30: no call of the platform API waits without limit (a request that
\* is never answered times out and counts as a failed attempt of its
\* token), and so, every step being taken in the end, every run ends.
C30_NoInfiniteWait == [](pc # "blocked") /\ <>(pc = "exited")

\* How many positions of listing l hold entry x.
Occurrences(l, x) == Cardinality({ i \in DOMAIN l : l[i] = x })

\* C31: the listing list_available_backups returned holds every archive
\* borg list reported as many times as it was reported, no other archive,
\* and is in the order of non-increasing raw_time: of two positions the
\* earlier never holds the older archive.
C31_ListingIsSortedPermutation ==
  /\ Len(archives) = Len(listed)
  /\ \A x \in Members(listed) \cup Members(archives) :
       Occurrences(archives, x) = Occurrences(listed, x)
  /\ \A i, j \in DOMAIN archives :
       i < j => archives[i].raw_time >= archives[j].raw_time

\* C31 witness: borg list reported the older of two archives first; the
\* listing returned holds both, the younger one first.
C31_Witness ==
  /\ pc = "select"
  /\ Len(listed) = 2
  /\ listed[1].raw_time < listed[2].raw_time
  /\ archives = << listed[2], listed[1] >>
\* What os.environ holds for borg once _setup_environment has run: the two
\* directories and the ssh command, and of the two encryption variables the
\* passphrase when one is configured, the unencrypted-access consent when
\* none is.
EnvironIsSetUp ==
  /\ environ.BORG_BASE_DIR = BaseDir
  /\ environ.BORG_CACHE_DIR = CacheDir
  /\ environ.BORG_RSH = SshCommand
  /\ IF Truthy(cfg.passphrase)
     THEN /\ environ.BORG_PASSPHRASE = cfg.passphrase
          /\ environ.BORG_UNKNOWN_UNENCRYPTED_REPO_ACCESS_IS_OK = None
     ELSE /\ environ.BORG_PASSPHRASE = None
          /\ environ.BORG_UNKNOWN_UNENCRYPTED_REPO_ACCESS_IS_OK = "yes"

\* C32: no step after the construction writes one of borg's environment
\* variables, and once the construction has accepted the configuration
\* exactly one of BORG_PASSPHRASE and
\* BORG_UNKNOWN_UNENCRYPTED_REPO_ACCESS_IS_OK is set: the first if and only
\* if a passphrase is configured.
C32_EnvironmentFixedAtStartup ==
  [][ /\ pc # "load_config" => environ' = environ
      /\ ~ConfigFatal' => EnvironIsSetUp' ]_vars

\* C32 witness: a backup run with a passphrase has gone through every stage
\* and ended; the passphrase is in the environment and the consent is not.
C32_Witness ==
  /\ mode = "backup"
  /\ pc = "exited"
  /\ exitCode = 0
  /\ SomeOk("create")
  /\ environ.BORG_PASSPHRASE = "s3cret"
  /\ environ.BORG_UNKNOWN_UNENCRYPTED_REPO_ACCESS_IS_OK = None
\* The command that has just been appended to the log.
LastCommand == log[Len(log)]

\* C33: every tar command, the top-level one and the nested ones, names the
\* helper pigz, with the thread count of the capabilities, exactly when
\* use_parallel holds and pigz is installed, and is the plain tar otherwise;
\* and what follows the command is decided by its result alone: after a
\* success of the top-level extraction the loop over the nested archives
\* starts, after a success of a nested one that archive is unlinked and the
\* loop goes on, after a failure nothing more is unlinked and the run leaves
\* with the exit status of a failed run.
C33_ParallelDecompressionGating ==
  [][ LET issued == Len(log') > Len(log) /\ LastCommand'.cmd \in {"tar", "tar_nested"}
          helper == capabilities.use_parallel /\ pigz
      IN
      /\ issued <=> tars' # tars
      /\ issued =>
           /\ tars' = Append(tars,
                 IF helper
                 THEN [ compress_program |-> "pigz", p |-> capabilities.compression_threads ]
                 ELSE [ compress_program |-> None, p |-> 0 ])
           /\ helper => capabilities.cpu_cores > 1 /\ capabilities.compression_threads >= 1
           /\ LastCommand'.res = "ok" /\ LastCommand'.cmd = "tar" =>
                /\ pc' = "nested"
                /\ nested'.extracted = 0 /\ nested'.unlinked = 0
                /\ exitCode' = exitCode
           /\ LastCommand'.res = "ok" /\ LastCommand'.cmd = "tar_nested" =>
                /\ pc' = "nested"
                /\ nested' = [ nested EXCEPT !.extracted = @ + 1, !.unlinked = @ + 1 ]
                /\ exitCode' = exitCode
           /\ LastCommand'.res = "fail" =>
                /\ pc' = "cleanup"
                /\ nested'.unlinked = nested.unlinked
                /\ exitCode' = RunErrorExit
                /\ LastState' = "error" ]_vars

\* C33 witness: on a machine with three cores, memory to spare and a disk
\* that is not rotational, with pigz installed, the top-level extraction and
\* a nested one have run with pigz on two threads, and the nested archive is
\* unlinked.
C33_Witness ==
  /\ pc = "nested"
  /\ capabilities.use_parallel /\ pigz
  /\ tars = << [ compress_program |-> "pigz", p |-> 2 ],
               [ compress_program |-> "pigz", p |-> 2 ] >>
  /\ nested = [ found |-> 1, extracted |-> 1, unlinked |-> 1 ]
\* The listing fetch DELETE number d of the log belongs to: the last GET
\* /backups before it.
FetchOf(d) ==
  LET before == { g \in LogIdx("get_backups") : g < d }
  IN IF before = {} THEN 0 ELSE CHOOSE g \in before : \A h \in before : h <= g

\* C34: in a backup run borg create is issued at most once, as are the
\* top-level extraction and the snapshot creation that succeeds; what is
\* unpacked and archived is the slug the successful snapshot creation
\* returned; a DELETE is sent with the token of the listing fetch before
\* it, which succeeded, and is for a slug of that listing; and a command
\* issued after a failed extraction or a failed borg create is the removal
\* of the working directory.  (The log only grows, so what holds of the
\* command issued last, in every state, holds of every command.)
C34_SingleArchiveNoRetry ==
  mode = "backup" /\ log # <<>> =>
    LET n == Len(log)
        created(i) == log[i].cmd = "snapshot_post" /\ log[i].res = "ok"
    IN
    /\ LastCommand.cmd \in {"tar", "create"} =>
         /\ \A i \in 1..(n - 1) : log[i].cmd # LastCommand.cmd
         /\ LastCommand.arg = slug
    /\ created(n) => \A i \in 1..(n - 1) : ~created(i)
    /\ slug # None <=> \E i \in 1..n : created(i)
    /\ LastCommand.cmd = "delete" =>
         /\ FetchOf(n) # 0
         /\ log[FetchOf(n)].res = "ok"
         /\ log[FetchOf(n)].arg = LastCommand.arg
    /\ pc = "prune_delete" =>
         /\ log[FetchOf(n + 1)].arg = TokenName(api.tok)
         /\ \A j \in DOMAIN pr.issued :
              \E i \in DOMAIN pr.backups : pr.backups[i].slug = pr.issued[j]
    /\ (\E i \in 1..(n - 1) :
          log[i].cmd \in {"tar", "tar_nested", "create"} /\ log[i].res = "fail")
         => LastCommand.cmd = "cleanup"

\* C34 witness: the first token's listing fetch failed, the second token
\* fetched the listing and the DELETEs were sent with it; the run has ended
\* after one extraction and one borg create of the slug.
C34_Witness ==
  /\ mode = "backup"
  /\ pc = "exited"
  /\ Count("tar") = 1 /\ Count("create") = 1
  /\ \E g \in LogIdx("get_backups") : log[g].res = "fail" /\ log[g].arg = TokenName(1)
  /\ \E d \in LogIdx("delete") : log[d].arg = TokenName(2)
\* C35: what _check_repo_exists does with an answer of borg info is decided
\* by the exit code and the keywords of stderr alone, in this order: exit
\* code 0 is a ready repository whatever stderr holds; otherwise "passphrase"
\* or "authentication" in stderr raises the authentication error, whatever
\* else stderr holds and also for exit code 2; otherwise the repository is not
\* ready and the initialization follows.  Every answer falls under exactly
\* one of the three.
C35_ProbeClassification ==
  hc.probe # NoProbe /\ hc.init = "none" /\ pc \in {"hc_return", "hc_raise", "hc_init"} =>
       LET r == hc.probe
           ready == pc = "hc_return" /\ exc = NoExc
           fatal == pc = "hc_raise" /\ exc.type = "ValueError"
           notReady == pc = "hc_init" /\ exc = NoExc
       IN /\ ClassifyProbe(r) \in {"ready", "auth", "missing", "other"}
          /\ r.rc = 0 => ready
          /\ r.rc # 0 /\ r.auth => fatal
          /\ r.rc # 0 /\ ~r.auth => notReady
          /\ (IF ready THEN 1 ELSE 0) + (IF fatal THEN 1 ELSE 0)
               + (IF notReady THEN 1 ELSE 0) = 1

\* C35 witness: borg info ended with exit code 2 and a stderr that holds
\* both an authentication keyword and "does not exist"; the authentication
\* error is being raised.
C35_Witness ==
  /\ pc = "hc_raise"
  /\ hc.init = "none"
  /\ hc.probe.rc = 2 /\ hc.probe.auth /\ hc.probe.missing
  /\ exc.type = "ValueError"
\* The entries of the listing of the pruning step whose date is strictly
\* greater than that of every other entry: the snapshot this run created,
\* when the listing holds it and nothing as young.
StrictlyNewest ==
  { i \in DOMAIN pr.backups :
      \A j \in DOMAIN pr.backups : j # i => pr.backups[j].date < pr.backups[i].date }

\* C36: in every pass of the removal loop, with the first token or the
\* second, also after a DELETE of an earlier pass raised, the retention count
\* is at least 1 and the entry of the listing with the strictly greatest date
\* is not among the entries to delete, and no DELETE has been issued for its
\* slug.
C36_NewSnapshotIsKept ==
  pc = "prune_delete" =>
    /\ cfg.keep_snapshots >= MinKeep
    /\ \A i \in StrictlyNewest :
         /\ \A k \in DOMAIN pr.to_remove : pr.to_remove[k].slug # pr.backups[i].slug
         /\ \A k \in DOMAIN pr.issued : pr.issued[k] # pr.backups[i].slug

\* C36 witness: a DELETE sent with the first token raised; the second token
\* fetched a listing of three snapshots, the last strictly the youngest, and
\* with a retention count of 1 the two others have been deleted.
C36_Witness ==
  /\ pc = "prune_delete"
  /\ api.tok = 2
  /\ \E d \in LogIdx("delete") : log[d].arg = TokenName(1)
  /\ cfg.keep_snapshots = MinKeep
  /\ Len(pr.backups) = 3
  /\ StrictlyNewest = {3}
  /\ Len(pr.issued) = 2
  /\ pr.i > Len(pr.to_remove)
\* C37: in a backup run completed and error are never both published; once
\* error is published nothing more is published on the status sensor and no
\* command is issued but the removal of the working directory, and the exit
\* status is that of a failed run; once completed is published it stays the
\* last state and the exit status is 0, whatever borg info --json answered
\* to the request for the repository statistics.
C37_TerminalStatesAreFinal ==
  [][ mode = "backup" =>
        /\ ~({"completed", "error"} \subseteq PublishedStates')
        /\ "error" \in PublishedStates =>
             /\ status' = status
             /\ log' = log \/ (log' = Append(log, LastCommand') /\ LastCommand'.cmd = "cleanup")
        /\ "error" \in PublishedStates' =>
             /\ LastState' = "error"
             /\ exitCode' = RunErrorExit
             /\ pc' \in {"cleanup", "exited"}
        /\ "completed" \in PublishedStates =>
             /\ status' = status
             /\ log' = log \/ (log' = Append(log, LastCommand') /\ LastCommand'.cmd = "cleanup")
        /\ "completed" \in PublishedStates' =>
             /\ LastState' = "completed"
             /\ exitCode' = 0
             /\ pc' \in {"cleanup", "exited"} ]_vars

\* C37 witness: completed was published, borg info --json was asked for the
\* statistics, the working directory was removed and the process has ended
\* with exit status 0.
C37_Witness ==
  /\ mode = "backup"
  /\ pc = "exited"
  /\ LastState = "completed"
  /\ Count("info_json") = 1
  /\ LastCommand.cmd = "cleanup"
  /\ exitCode = 0
\* restore_backup has called list_available_backups, and what it got back
\* is empty: borg list failed, its output did not parse, or it reported no
\* archive.
ListingCameBackEmpty ==
  /\ \E i \in LogIdx("borg_list") : log[i].arg = ""
  /\ archives = <<>>

\* _select_backup_to_restore has returned None.
NothingSelected ==
  (pc = "select_return" /\ selected = None) \/ SelectionFailed

\* C38: in a restore run whose listing came back empty, or whose selection
\* returned nothing, no borg extract and no platform restore is issued, and
\* once the run has left the stage restore_error is the last state published
\* and the exit status is 1; a failed borg list gives the empty listing; and
\* every name passed to borg extract is the name of an archive of the listing
\* of this run, one that borg list reported.
C38_NoRestoreWithoutArchive ==
  mode = "restore" =>
    /\ ListingCameBackEmpty \/ NothingSelected =>
         /\ Count("extract") = 0
         /\ Count("restore_post") = 0
    /\ ListingCameBackEmpty \/ SelectionFailed =>
         /\ LastState = "restore_error"
         /\ exitCode = RunErrorExit
         /\ exitCode # 0
         /\ pc \in {"cleanup", "exited"}
    /\ \A i \in LogIdx("borg_list") : log[i].arg = "" /\ log[i].res = "fail" => archives = <<>>
    /\ \A i \in LogIdx("extract") :
         /\ \E k \in DOMAIN archives : archives[k].name = log[i].arg
         /\ \E k \in DOMAIN listed : listed[k].name = log[i].arg
         /\ \E j \in LogIdx("borg_list") : j < i /\ log[j].arg = "" /\ log[j].res = "ok"
    /\ Count("restore_post") > 0 => Count("extract") > 0

\* C38 witness: borg list reported archives, BACKUP_NAME named one that is
\* not among them; the run has ended with restore_error and exit status 1,
\* no borg extract issued.
C38_Witness ==
  /\ mode = "restore"
  /\ pc = "exited"
  /\ archives # <<>>
  /\ selected = None
  /\ SelectionFailed
  /\ Count("extract") = 0
  /\ exitCode = RunErrorExit
\* C39: an application of _cleanup_temp_files leaves the exit status and
\* the states published as they are, whether the removal succeeds or fails;
\* applied when the working directory does not exist it removes nothing and
\* fails at nothing; after a removal that succeeded the directory is gone;
\* and a second application, after one that removed the directory or found
\* none, changes nothing.
C39_CleanupIsIdempotent ==
  [][ /\ exitCode' = exitCode
      /\ status' = status
      /\ LastCommand'.cmd = "cleanup"
      /\ ~workDir => ~workDir' /\ LastCommand'.res = "ok"
      /\ LastCommand'.res = "ok" => ~workDir'
      /\ LastCommand'.res = "fail" => workDir /\ workDir'
      /\ pc = "exited" /\ LastCommand.res = "ok" =>
           /\ workDir' = workDir
           /\ LastCommand' = LastCommand ]_vars

\* C39 witness: the run had failed and the working directory was not there;
\* _cleanup_temp_files has been applied twice, both times at nothing, and
\* the exit status and the last state are those of the failed run.
C39_Witness ==
  /\ pc = "exited_twice"
  /\ ~workDir
  /\ Len(log) = 3
  /\ log[2] = Entry("cleanup", "ok", "") /\ log[3] = Entry("cleanup", "ok", "")
  /\ exitCode = RunErrorExit
  /\ LastState = ErrorState
====
